---- MODULE Spec2Model ----
(***************************************************************************)
(* NCBI EUtils proxy: the search handler (api/search.js), the batch papers *)
(* handler (api/papers.js) and the single lookup (api/paper/[id].js);      *)
(* server.js carries the same route bodies behind Express routing and the  *)
(* cors middleware.  One request is processed from receipt to response;    *)
(* every action is the code that runs between two awaits of a handler.     *)
(*                                                                         *)
(* Texts are sequences of tokens.  Where the code looks at characters      *)
(* (parseInt, the PMC prefix regex, trim) the tokens are characters.       *)
(* Undefined is the one-token text <<"undefined">>; it is in no input set  *)
(* as a text and stands for JavaScript's undefined / a missing element.    *)
(***************************************************************************)
EXTENDS Integers, Sequences, FiniteSets, TLC

VARIABLES pc, req, local, calls, replies, resp, sent

vars == <<pc, req, local, calls, replies, resp, sent>>

(* ------------------------------ bounds --------------------------------- *)

\* upstream hit counts 0..MaxCount are enumerated besides the fixed samples
MaxCount == 2

\* longest id list the second search call returns
MaxIdList == 2

\* longest ids array of a batch request
MaxIds == 2

\* most article elements in the reply of the primary efetch
MaxArticles == 2

\* most article elements in the reply of the PMC enrichment efetch
MaxPmcArticles == 2

(* --------------------------- JavaScript values -------------------------- *)

Undefined == <<"undefined">>

\* JavaScript truthiness of a text: undefined and '' are falsy
Truthy(x) == x # Undefined /\ x # <<>>

DigitChars == {"0", "1", "2", "3", "4", "5", "6", "7", "8", "9"}

DigitVal(c) ==
  CASE c = "0" -> 0 [] c = "1" -> 1 [] c = "2" -> 2 [] c = "3" -> 3
    [] c = "4" -> 4 [] c = "5" -> 5 [] c = "6" -> 6 [] c = "7" -> 7
    [] c = "8" -> 8 [] c = "9" -> 9

DigitChar(n) ==
  CASE n = 0 -> "0" [] n = 1 -> "1" [] n = 2 -> "2" [] n = 3 -> "3"
    [] n = 4 -> "4" [] n = 5 -> "5" [] n = 6 -> "6" [] n = 7 -> "7"
    [] n = 8 -> "8" [] n = 9 -> "9"

\* decimal text of a natural number, as JSON carries a count ("157")
RECURSIVE DecStr(_)
DecStr(n) == IF n < 10 THEN <<DigitChar(n)>>
             ELSE DecStr(n \div 10) \o <<DigitChar(n % 10)>>

RECURSIVE SkipWs(_)
SkipWs(s) == IF s # <<>> /\ Head(s) = " " THEN SkipWs(Tail(s)) ELSE s

RECURSIVE DigitPrefix(_)
DigitPrefix(s) == IF s # <<>> /\ Head(s) \in DigitChars
                  THEN <<Head(s)>> \o DigitPrefix(Tail(s))
                  ELSE <<>>

RECURSIVE DecVal(_, _)
DecVal(s, acc) == IF s = <<>> THEN acc
                  ELSE DecVal(Tail(s), acc * 10 + DigitVal(Head(s)))

NaN == [nan |-> TRUE, val |-> 0]

\* parseInt(s, 10): leading blanks, an optional sign, the longest run of
\* digits; NaN when there is no digit.  parseInt(undefined) is NaN.
parseInt(s) ==
  IF s = Undefined THEN NaN
  ELSE LET t == SkipWs(s)
           neg == t # <<>> /\ Head(t) = "-"
           u == IF t # <<>> /\ Head(t) \in {"-", "+"} THEN Tail(t) ELSE t
           d == DigitPrefix(u)
       IN IF d = <<>> THEN NaN
          ELSE [nan |-> FALSE, val |-> IF neg THEN 0 - DecVal(d, 0) ELSE DecVal(d, 0)]

\* encodeURIComponent on the characters the terms use
RECURSIVE encodeURIComponent(_)
encodeURIComponent(s) ==
  IF s = <<>> THEN <<>>
  ELSE (CASE Head(s) = " " -> <<"%", "2", "0">>
          [] Head(s) = "&" -> <<"%", "2", "6">>
          [] OTHER -> <<Head(s)>>) \o encodeURIComponent(Tail(s))

(* ------------------------------ search ---------------------------------- *)

SUPPORTED_DATABASES == {<<"pubmed">>, <<"pmc">>}

DefaultDb == <<"pmc">>
DefaultRetstart == <<"0">>
DefaultRetmax == <<"1", "0">>
RetmaxLimit == 10000

\* destructuring default: applied only when the parameter is undefined
OrDefault(v, d) == IF v = Undefined THEN d ELSE v

Methods == {"GET", "POST", "OPTIONS"}

\* the two deployments of every route: the serverless handlers under api/
\* and the Express application of server.js
Servers == {"serverless", "express"}

\* the status the cors middleware of server.js:10 ends an OPTIONS request
\* with (its default optionsSuccessStatus)
CorsPreflightStatus == 204

\* search.js:10-15, papers.js:14-21, [id].js:7-13 answer OPTIONS themselves;
\* in server.js the cors middleware does, before any route
Preflight(server) ==
  [status |-> IF server = "express" THEN CorsPreflightStatus ELSE 200,
   kind |-> "empty", allowOrigin |-> "*"]

\* search.js:23-25, papers.js:40-42, [id].js:32-34 answer 405; server.js
\* registers one method per route (app.get, app.post) and Express answers a
\* request no route matches with its 404 page
WrongMethod(server) ==
  IF server = "express" THEN [status |-> 404, kind |-> "html"]
  ELSE [status |-> 405, kind |-> "error", error |-> "Method not allowed"]

TermInputs == {Undefined, <<>>, <<"c", "a", "n", "c", "e", "r">>, <<"a", " ", "b">>}
DbInputs == {Undefined, <<"pmc">>, <<"pubmed">>, <<"embase">>, <<>>}
RetstartInputs == {Undefined, <<>>, <<"0">>, <<"1">>, <<"3">>, <<"-", "1">>, <<"x">>}
RetmaxInputs == {Undefined, <<>>, <<"2">>, <<"0">>, <<"-", "5">>, <<"5", "x">>, <<"a", "b">>,
                 <<"1", "0", "0", "0", "0">>, <<"1", "0", "0", "0", "1">>}

SearchRequests ==
  [endpoint : {"search"}, server : Servers, method : Methods, term : TermInputs, db : DbInputs,
   retstart : RetstartInputs, retmax : RetmaxInputs]

\* search.js:43 - the retstart test, negated
ValidRetstart(start) == ~start.nan /\ start.val >= 0

ValidRetmax_NoLimit(max) == ~max.nan /\ max.val > 0

\* search.js:46 - the retmax test, negated
ValidRetmax(max) == ~max.nan /\ max.val > 0 /\ max.val <= RetmaxLimit

TokensMissing_WebenvOnly(webenv, querykey) == ~Truthy(webenv)

\* search.js:76 - !webenv || !querykey
TokensMissing(webenv, querykey) == ~Truthy(webenv) \/ ~Truthy(querykey)

BeyondCount_Strict(start, count) == start > count

\* search.js:84 - the short-circuit test
BeyondCount(start, count) == start >= count

\* search.js:51-56 - the URL of the history-creating call; axios.get is given
\* no options, so the call has no timeout
HistoryCall(db, term) ==
  [api |-> "esearch", db |-> db, term |-> encodeURIComponent(term), usehistory |-> "y"]

PageCall_ZeroStart(db, querykey, webenv, start, max) ==
  [api |-> "esearch", db |-> db, query_key |-> querykey, WebEnv |-> webenv,
   retstart |-> 0, retmax |-> max]

\* search.js:90-94 - the URL of the paging call, again without options
PageCall(db, querykey, webenv, start, max) ==
  [api |-> "esearch", db |-> db, query_key |-> querykey, WebEnv |-> webenv,
   retstart |-> start, retmax |-> max]

SearchBody_TotalLen(ids, count, start, max) ==
  [status |-> 200, kind |-> "search", ids |-> ids, total |-> Len(ids),
   retstart |-> start, retmax |-> max]

\* search.js:86 and 114 - the success body
SearchBody(ids, count, start, max) ==
  [status |-> 200, kind |-> "search", ids |-> ids, total |-> count,
   retstart |-> start, retmax |-> max]

\* what axios.get can do: reject with an upstream status, reject without a
\* response (network failure, timeout), or resolve with a 2xx status
Rejections == {[outcome |-> "rejected", cause |-> "response", status |-> 429],
               [outcome |-> "rejected", cause |-> "response", status |-> 502],
               [outcome |-> "rejected", cause |-> "request", status |-> 0]}

CountTexts == {Undefined, <<"x">>, <<"1", "5", "7">>} \cup {DecStr(n) : n \in 0..MaxCount}
TokenTexts == {Undefined, <<>>, <<"W">>}
KeyTexts == {Undefined, <<>>, <<"1">>}
ErrorTexts == {Undefined, <<>>, <<"e">>}

IdPool == <<<<"1", "2", "3">>, <<"4", "5", "6">>, <<"7">>>>

\* id lists: the prefixes of IdPool, and the first two in reverse order
IdLists == {SubSeq(IdPool, 1, n) : n \in 0..MaxIdList} \cup {<<IdPool[2], IdPool[1]>>}

ESearchResults ==
  [ERROR : ErrorTexts, count : CountTexts, webenv : TokenTexts, querykey : KeyTexts,
   hasIdlist : {FALSE}, idlist : {<<>>}]

ESearchPageResults ==
  [ERROR : ErrorTexts, count : {Undefined}, webenv : {Undefined}, querykey : {Undefined},
   hasIdlist : {TRUE}, idlist : IdLists]
  \cup
  [ERROR : {Undefined}, count : {Undefined}, webenv : {Undefined}, querykey : {Undefined},
   hasIdlist : {FALSE}, idlist : {<<>>}]

\* a resolved reply: data with or without an esearchresult member
Resolved(status, results) ==
  {[outcome |-> "resolved", status |-> status, data |-> [esearchresult |-> r]] : r \in results}
  \cup {[outcome |-> "resolved", status |-> status, data |-> [header |-> <<>>]]}

HistoryReplies == Rejections \cup Resolved(200, ESearchResults)
                  \cup {[outcome |-> "resolved", status |-> 204, data |-> [header |-> <<>>]]}

PageReplies == Rejections \cup Resolved(200, ESearchPageResults)
               \cup {[outcome |-> "resolved", status |-> 204, data |-> [header |-> <<>>]]}

NoLocal == [start |-> 0, max |-> 0, db |-> Undefined, count |-> 0,
            webenv |-> Undefined, querykey |-> Undefined, papers |-> <<>>]

NoResp == [status |-> 0, kind |-> "none"]

ErrorResp(status, msg) == [status |-> status, kind |-> "error", error |-> msg]

\* the catch block of the search handler
SearchCatch(reply) ==
  IF reply.outcome = "rejected" /\ reply.cause = "response"
  THEN ErrorResp(reply.status, "ESearch/ESearch API Error")
  ELSE IF reply.outcome = "rejected" /\ reply.cause = "request"
  THEN ErrorResp(500, "No response from ESearch/ESearch API")
  ELSE ErrorResp(500, "Internal Server Error during search")

Respond_Silent(r) ==
  /\ resp' = r
  /\ sent' = sent
  /\ pc' = "done"

\* res.json / res.status(..).json / res.end followed by the handler's return
Respond(r) ==
  /\ resp' = r
  /\ sent' = sent + 1
  /\ pc' = "done"

\* handler of api/search.js up to the first await
SearchReceive ==
  /\ pc = "idle"
  /\ \E r \in SearchRequests :
       /\ req' = r
       /\ replies' = replies
       /\ IF r.method = "OPTIONS"
          THEN /\ Respond(Preflight(r.server))
               /\ UNCHANGED <<local, calls>>
          ELSE IF r.method # "GET"
          THEN /\ Respond(WrongMethod(r.server))
               /\ UNCHANGED <<local, calls>>
          ELSE LET db == OrDefault(r.db, DefaultDb)
                   start == parseInt(OrDefault(r.retstart, DefaultRetstart))
                   max == parseInt(OrDefault(r.retmax, DefaultRetmax))
               IN IF ~Truthy(r.term)
                  THEN /\ Respond(ErrorResp(400, "Search term is required"))
                       /\ UNCHANGED <<local, calls>>
                  ELSE IF db \notin SUPPORTED_DATABASES
                  THEN /\ Respond(ErrorResp(400, "Invalid database"))
                       /\ UNCHANGED <<local, calls>>
                  ELSE IF ~ValidRetstart(start)
                  THEN /\ Respond(ErrorResp(400, "retstart must be a non-negative integer"))
                       /\ UNCHANGED <<local, calls>>
                  ELSE IF ~ValidRetmax(max)
                  THEN /\ Respond(ErrorResp(400, "retmax must be a positive integer, max 10000"))
                       /\ UNCHANGED <<local, calls>>
                  ELSE /\ local' = [NoLocal EXCEPT !.start = start.val, !.max = max.val, !.db = db]
                       /\ calls' = Append(calls, HistoryCall(db, r.term))
                       /\ pc' = "search_history"
                       /\ UNCHANGED <<resp, sent>>

\* from the return of the first axios.get to the second await or the response
SearchHistoryReturn ==
  /\ pc = "search_history"
  /\ \E reply \in HistoryReplies :
       /\ replies' = Append(replies, reply)
       /\ req' = req
       /\ IF reply.outcome = "rejected"
          THEN /\ Respond(SearchCatch(reply))
               /\ UNCHANGED <<local, calls>>
          ELSE IF reply.status # 200
          THEN /\ Respond(ErrorResp(reply.status, "ESearch History API Error"))
               /\ UNCHANGED <<local, calls>>
          ELSE IF "esearchresult" \notin DOMAIN reply.data
          THEN \* esearchResult.webenv throws a TypeError: the catch block answers
               /\ Respond(SearchCatch([outcome |-> "thrown"]))
               /\ UNCHANGED <<local, calls>>
          ELSE LET esearchResult == reply.data.esearchresult
                   parsed == parseInt(esearchResult.count)
                   count == IF parsed.nan THEN 0 ELSE parsed.val
                   webenv == esearchResult.webenv
                   querykey == esearchResult.querykey
               IN IF Truthy(esearchResult.ERROR)
                  THEN /\ Respond(ErrorResp(500, "ESearch History API Error"))
                       /\ UNCHANGED <<local, calls>>
                  ELSE IF TokensMissing(webenv, querykey)
                  THEN /\ Respond(ErrorResp(500, "ESearch History API did not return required WebEnv or QueryKey"))
                       /\ local' = [local EXCEPT !.count = count]
                       /\ calls' = calls
                  ELSE IF BeyondCount(local.start, count)
                  THEN /\ Respond(SearchBody(<<>>, count, local.start, local.max))
                       /\ local' = [local EXCEPT !.count = count, !.webenv = webenv,
                                                 !.querykey = querykey]
                       /\ calls' = calls
                  ELSE /\ local' = [local EXCEPT !.count = count, !.webenv = webenv,
                                                 !.querykey = querykey]
                       /\ calls' = Append(calls, PageCall(local.db, querykey, webenv,
                                                           local.start, local.max))
                       /\ pc' = "search_page"
                       /\ UNCHANGED <<resp, sent>>

\* from the return of the second axios.get to the response
SearchPageReturn ==
  /\ pc = "search_page"
  /\ \E reply \in PageReplies :
       /\ replies' = Append(replies, reply)
       /\ UNCHANGED <<req, local, calls>>
       /\ IF reply.outcome = "rejected"
          THEN Respond(SearchCatch(reply))
          ELSE IF reply.status # 200
          THEN Respond(ErrorResp(reply.status, "ESearch API Error for specific IDs"))
          ELSE IF "esearchresult" \notin DOMAIN reply.data
          THEN Respond(SearchCatch([outcome |-> "thrown"]))
          ELSE LET esearchResultIds == reply.data.esearchresult
                   idList == IF esearchResultIds.hasIdlist THEN esearchResultIds.idlist ELSE <<>>
               IN IF Truthy(esearchResultIds.ERROR)
                  THEN Respond(ErrorResp(500, "ESearch API Error for specific IDs"))
                  ELSE Respond(SearchBody(idList, local.count, local.start, local.max))

(* ------------------------- text operations ------------------------------ *)

RECURSIVE TrimLeft(_)
TrimLeft(s) == IF s # <<>> /\ Head(s) = " " THEN TrimLeft(Tail(s)) ELSE s

RECURSIVE TrimRight(_)
TrimRight(s) == IF s # <<>> /\ s[Len(s)] = " " THEN TrimRight(SubSeq(s, 1, Len(s) - 1)) ELSE s

\* String.prototype.trim
Trim(s) == TrimRight(TrimLeft(s))

\* el?.textContent || '' : the text of an element, '' when it is missing
TextOr(x, d) == IF Truthy(x) THEN x ELSE d

\* el?.textContent?.trim() || ''
TrimOr(x, d) == IF x # Undefined /\ Trim(x) # <<>> THEN Trim(x) ELSE d

\* Array.prototype.join
RECURSIVE Join(_, _)
Join(parts, sep) ==
  IF parts = <<>> THEN <<>>
  ELSE IF Len(parts) = 1 THEN parts[1]
  ELSE parts[1] \o sep \o Join(Tail(parts), sep)

\* String.prototype.padStart(2, '0'): pads, never shortens
padStart2(s) == IF Len(s) >= 2 THEN s ELSE IF Len(s) = 1 THEN <<"0">> \o s ELSE <<"0", "0">>

\* toLowerCase / toUpperCase on the tokens the inputs use
Lower(t) ==
  CASE t = "P" -> "p" [] t = "M" -> "m" [] t = "C" -> "c"
    [] t = "PDF" -> "pdf" [] t = ".PDF" -> ".pdf" [] t = "HTTP" -> "http"
    [] OTHER -> t

cleanPmcId_Identity(id) == id

\* papers.js:26 - id.replace(/^(PMC|pmc)/i, '') for a string, the value
\* itself otherwise: one leading prefix is removed, in any casing
cleanPmcId(id) ==
  IF id # Undefined /\ Len(id) >= 3
     /\ Lower(id[1]) = "p" /\ Lower(id[2]) = "m" /\ Lower(id[3]) = "c"
  THEN SubSeq(id, 4, Len(id))
  ELSE id

NoAbstract == <<"No abstract available.">>

Unknown == <<"Unknown">>

\* the template URL of papers.js:140, 203, 218, 298, 313
PmcPdfUrl(id) == <<"http", "s://www.ncbi.nlm.nih.gov/pmc/articles/", "PMC">> \o id \o <<"/pdf/">>

\* year/month/day composition of papers.js:118-123 (188-193, 283-288);
\* the result for no year is the caller's
ComposeDate(year, month, day, none) ==
  IF year # <<>> /\ month # <<>> /\ day # <<>>
  THEN year \o <<"-">> \o padStart2(month) \o <<"-">> \o padStart2(day)
  ELSE IF year # <<>> /\ month # <<>>
  THEN year \o <<"-">> \o padStart2(month)
  ELSE IF year # <<>> THEN year
  ELSE none

(* ------------------------ PubMed normalisation -------------------------- *)

\* papers.js:90-94 - one AbstractText segment, with its label when it has one
PubmedSegment(el) ==
  IF Truthy(el.Label) THEN el.Label \o <<":", " ">> \o Trim(el.text) ELSE Trim(el.text)

PubmedAbstract(a) ==
  IF Len(a.AbstractText) > 0
  THEN Join([i \in 1..Len(a.AbstractText) |-> PubmedSegment(a.AbstractText[i])], <<" ">>)
  ELSE NoAbstract

\* papers.js:103-107 - the display name of one Author element
PubmedAuthorName(el) ==
  LET fullName == Trim(TextOr(el.ForeName, <<>>) \o <<" ">> \o TextOr(el.LastName, <<>>))
  IN IF fullName # <<>> THEN fullName
     ELSE IF Truthy(el.CollectiveName) THEN el.CollectiveName
     ELSE Unknown

KeepPubmedName(name) == name # <<>> /\ name # Unknown

\* papers.js:98-110
PubmedAuthors(a) ==
  IF a.hasAuthorList
  THEN SelectSeq([i \in 1..Len(a.Author) |-> PubmedAuthorName(a.Author[i])], KeepPubmedName)
  ELSE <<>>

FirstAuthor(authors, none) == IF Len(authors) > 0 THEN authors[1] ELSE none

\* papers.js:112-127
PubmedPubDate(a) ==
  IF a.hasPubDate
  THEN LET year == TrimOr(a.Year, <<>>)
           month == TrimOr(a.Month, <<>>)
           day == TrimOr(a.Day, <<>>)
       IN ComposeDate(year, month, day, TrimOr(a.PubStatusYear, year))
  ELSE <<>>

\* papers.js:128-133
PubmedPmcId(a) == IF a.hasArticleIdList /\ a.pmc # Undefined THEN a.pmc ELSE <<>>

\* papers.js:84-155 - the record of one PubmedArticle element
NormalizePubmed(a) ==
  LET authors == PubmedAuthors(a)
      cleanedPmcId == cleanPmcId(PubmedPmcId(a))
  IN [pmcid |-> cleanedPmcId,
      uid |-> TextOr(a.PMID, <<>>),
      title |-> Trim(TextOr(a.ArticleTitle, <<>>)),
      articletitle |-> Trim(PubmedAbstract(a)),
      sortfirstauthor |-> FirstAuthor(authors, Unknown),
      authors |-> Join(authors, <<",", " ">>),
      authorsArray |-> authors,
      source |-> Trim(TextOr(a.MedlineTA, TextOr(a.JournalTitle, <<>>))),
      pubdate |-> PubmedPubDate(a),
      pdfUrl |-> IF Truthy(cleanedPmcId) THEN PmcPdfUrl(cleanedPmcId) ELSE <<>>]

(* -------------------------- PMC normalisation --------------------------- *)

\* the text content of a name element
NameText(el) == TextOr(el.surname, <<>>) \o TextOr(el.given, <<>>) \o el.other

\* papers.js:173-178 - the display name of one contributor name element
PmcAuthorName(el) ==
  LET fullName == Trim(TextOr(el.given, <<>>) \o <<" ">> \o TextOr(el.surname, <<>>))
  IN IF fullName # <<>> THEN fullName ELSE Trim(NameText(el))

KeepPmcName(name) == name # <<>>

PmcAuthors(a) == SelectSeq([i \in 1..Len(a.names) |-> PmcAuthorName(a.names[i])], KeepPmcName)

PmcAbstract_EmptyWhenNone(a, none) ==
  IF Len(a.abstractP) > 0 THEN Join(a.abstractP, <<" ">>) ELSE <<>>

\* papers.js:165-171 with the value used when there is no paragraph
PmcAbstract(a, none) == IF Len(a.abstractP) > 0 THEN Join(a.abstractP, <<" ">>) ELSE none

\* papers.js:182-195 with the value used when no date can be composed
PmcPubDate(a, none) ==
  IF a.hasPubDate
  THEN ComposeDate(TrimOr(a.year, <<>>), TrimOr(a.month, <<>>), TrimOr(a.day, <<>>), none)
  ELSE none

Includes(s, tok) == \E i \in 1..Len(s) : Lower(s[i]) = tok

\* papers.js:197-220 - self-uri (the first one), then ext-link, then the template
PmcPdf(a, pmcId) ==
  LET fromSelfUri ==
        IF Len(a.selfUri) > 0
        THEN LET selfUri == a.selfUri[1]
             IN IF Truthy(selfUri.contentType) /\ Includes(selfUri.contentType, "pdf")
                   /\ Truthy(selfUri.href)
                THEN (IF Head(selfUri.href) = "http" THEN selfUri.href ELSE PmcPdfUrl(pmcId))
                ELSE <<>>
        ELSE <<>>
      pdfLinks == {i \in 1..Len(a.extLink) :
                     Truthy(a.extLink[i]) /\ Lower(a.extLink[i][Len(a.extLink[i])]) = ".pdf"}
      fromExtLink ==
        IF pdfLinks # {} THEN a.extLink[CHOOSE i \in pdfLinks : \A j \in pdfLinks : i <= j]
        ELSE <<>>
  IN IF fromSelfUri # <<>> THEN fromSelfUri
     ELSE IF fromExtLink # <<>> THEN fromExtLink
     ELSE PmcPdfUrl(pmcId)

\* papers.js:159-233 - the record of one article element
NormalizePmc(a) ==
  LET pmcIdInXml == cleanPmcId(TextOr(a.pmc, <<>>))
      authors == PmcAuthors(a)
  IN [pmcid |-> pmcIdInXml,
      uid |-> TextOr(a.pmid, <<>>),
      title |-> Trim(TextOr(a.title, <<>>)),
      articletitle |-> Trim(PmcAbstract(a, NoAbstract)),
      sortfirstauthor |-> FirstAuthor(authors, Unknown),
      authors |-> Join(authors, <<",", " ">>),
      authorsArray |-> authors,
      source |-> Trim(TextOr(a.journal, <<>>)),
      pubdate |-> PmcPubDate(a, <<>>),
      pdfUrl |-> PmcPdf(a, pmcIdInXml)]

(* ----------------------------- enrichment ------------------------------- *)

\* papers.js:259 - papers.findIndex(p => p.pmcid === pmcIdInXml), 0 for -1
FindIndex(papers, pmcIdInXml) ==
  LET hits == {i \in 1..Len(papers) : papers[i].pmcid = pmcIdInXml}
  IN IF hits = {} THEN 0 ELSE CHOOSE i \in hits : \A j \in hits : i <= j

\* papers.js:261-327 - the record after the overlay of one PMC article
Overlay(paper, a, pmcIdInXml) ==
  LET authorsInXml == PmcAuthors(a)
  IN [paper EXCEPT
        !.title = Trim(TextOr(a.title, paper.title)),
        !.articletitle = Trim(PmcAbstract(a, paper.articletitle)),
        !.sortfirstauthor = FirstAuthor(authorsInXml, paper.sortfirstauthor),
        !.authors = Join(authorsInXml, <<",", " ">>),
        !.authorsArray = authorsInXml,
        !.source = Trim(TextOr(a.journal, paper.source)),
        !.pubdate = PmcPubDate(a, paper.pubdate),
        !.pdfUrl = PmcPdf(a, pmcIdInXml)]

EnrichOne_AnyRecord(papers, a) ==
  LET pmcIdInXml == cleanPmcId(TextOr(a.pmc, <<>>))
      paperIndex == IF FindIndex(papers, pmcIdInXml) # 0 THEN FindIndex(papers, pmcIdInXml)
                    ELSE IF Len(papers) > 0 THEN 1 ELSE 0
  IN IF paperIndex # 0
     THEN [papers EXCEPT ![paperIndex] = Overlay(papers[paperIndex], a, pmcIdInXml)]
     ELSE papers

\* papers.js:254-328 - one iteration of the loop over the PMC articles
EnrichOne(papers, a) ==
  LET pmcIdInXml == cleanPmcId(TextOr(a.pmc, <<>>))
      paperIndex == FindIndex(papers, pmcIdInXml)
  IN IF paperIndex # 0
     THEN [papers EXCEPT ![paperIndex] = Overlay(papers[paperIndex], a, pmcIdInXml)]
     ELSE papers

\* the loop over the PMC articles, in document order
RECURSIVE Enrich(_, _)
Enrich(papers, articles) ==
  IF articles = <<>> THEN papers
  ELSE Enrich(EnrichOne(papers, Head(articles)), Tail(articles))

(* ------------------------------ papers ---------------------------------- *)

\* the ids a batch request can carry: arrays of a prefixed id and a blank one
\* up to MaxIds entries, and fixed samples with a bare id, a prefix alone, a
\* prefix before a blank and a repeated prefix
IdTexts == {<<"P", "M", "C", "7">>, <<" ">>}

IdArrays ==
  UNION {[1..n -> IdTexts] : n \in 0..MaxIds}
  \cup {<<<<"8">>, <<"p", "m", "c", "7">>>>,
        <<<<"p", "m", "c">>>>,
        <<<<"P", "m", "c", " ">>, <<"8">>>>,
        <<<<"P", "M", "C", "P", "M", "C", "9">>>>,
        <<<<"8">>, Undefined>>}

\* req.body of POST /api/papers: absent, or {ids, db} where ids is missing,
\* a string, or an array of strings
PapersRequests ==
  [endpoint : {"papers"}, server : Servers, method : Methods, hasBody : {TRUE}, idsKind : {"array"},
   ids : IdArrays, db : {Undefined, <<"pmc">>, <<"pubmed">>, <<"embase">>}]
  \cup
  [endpoint : {"papers"}, server : Servers, method : {"POST"}, hasBody : {TRUE}, idsKind : {"missing", "string"},
   ids : {<<>>}, db : {Undefined, <<"pubmed">>}]
  \cup
  [endpoint : {"papers"}, server : Servers, method : {"POST"}, hasBody : {FALSE}, idsKind : {"missing"},
   ids : {<<>>}, db : {Undefined}]

\* PubmedArticle elements: the i-th article of a document has PMID "1i"; its
\* ArticleId of type pmc is absent or one of the texts; its content is rich
\* (every element present) or bare (none present)
PubmedShapes ==
  {[pmc |-> Undefined, profile |-> "rich"],
   [pmc |-> <<"P", "M", "C", "7">>, profile |-> "rich"],
   [pmc |-> <<"P", "M", "C", "7">>, profile |-> "bare"],
   [pmc |-> <<"8">>, profile |-> "rich"]}

PubmedArticleOf(i, shape) ==
  IF shape.profile = "rich"
  THEN [PMID |-> <<"1", DigitChar(i)>>,
        ArticleTitle |-> <<" ", "PubMed title", DigitChar(i), " ">>,
        AbstractText |-> <<[Label |-> <<"BACKGROUND">>, text |-> <<" ", "bg">>],
                           [Label |-> Undefined, text |-> <<"rest", " ">>]>>,
        hasAuthorList |-> TRUE,
        Author |-> <<[ForeName |-> <<"Ann">>, LastName |-> <<"Lee">>, CollectiveName |-> Undefined],
                     [ForeName |-> Undefined, LastName |-> Undefined, CollectiveName |-> Undefined],
                     [ForeName |-> Undefined, LastName |-> Undefined, CollectiveName |-> <<"Group">>]>>,
        MedlineTA |-> <<"J Med">>,
        JournalTitle |-> <<"Journal of Medicine">>,
        hasPubDate |-> TRUE,
        Year |-> <<"2", "0", "2", "1">>, Month |-> <<"3">>, Day |-> <<"7">>,
        PubStatusYear |-> Undefined,
        hasArticleIdList |-> TRUE,
        pmc |-> shape.pmc]
  ELSE [PMID |-> <<"1", DigitChar(i)>>,
        ArticleTitle |-> Undefined,
        AbstractText |-> <<>>,
        hasAuthorList |-> FALSE,
        Author |-> <<>>,
        MedlineTA |-> Undefined,
        JournalTitle |-> Undefined,
        hasPubDate |-> FALSE,
        Year |-> Undefined, Month |-> Undefined, Day |-> Undefined,
        PubStatusYear |-> Undefined,
        hasArticleIdList |-> shape.pmc # Undefined,
        pmc |-> shape.pmc]

\* article elements of the PMC schema: article-id of type pmc absent or one
\* of the texts; content rich or bare; the i-th rich article has pmid "2i"
PmcShapes ==
  {[pmc |-> Undefined, profile |-> "rich"],
   [pmc |-> Undefined, profile |-> "bare"],
   [pmc |-> <<"p", "m", "c", "7">>, profile |-> "rich"],
   [pmc |-> <<"P", "M", "C", "7">>, profile |-> "bare"],
   [pmc |-> <<"8">>, profile |-> "rich"]}

PmcArticleOf(i, shape) ==
  IF shape.profile = "rich"
  THEN [pmc |-> shape.pmc,
        pmid |-> <<"2", DigitChar(i)>>,
        title |-> <<"PMC title", DigitChar(i), " ">>,
        abstractP |-> <<<<"para one">>, <<"para two", " ">>>>,
        names |-> <<[given |-> <<"Bo">>, surname |-> <<"Chan">>, other |-> <<>>],
                    [given |-> Undefined, surname |-> Undefined, other |-> <<" ">>],
                    [given |-> Undefined, surname |-> Undefined, other |-> <<"Consortium">>]>>,
        journal |-> <<"PMC Journal", " ">>,
        hasPubDate |-> TRUE,
        year |-> <<"2", "0", "2", "0">>, month |-> <<"1", "1">>, day |-> Undefined,
        selfUri |-> <<>>,
        extLink |-> <<<<"http", "://host/page">>, <<"http", "://host/full", ".PDF">>>>]
  ELSE [pmc |-> shape.pmc,
        pmid |-> Undefined,
        title |-> Undefined,
        abstractP |-> <<>>,
        names |-> <<>>,
        journal |-> Undefined,
        hasPubDate |-> FALSE,
        year |-> Undefined, month |-> Undefined, day |-> Undefined,
        selfUri |-> <<>>,
        extLink |-> <<>>]

PubmedDocs ==
  {[i \in 1..Len(shapes) |-> PubmedArticleOf(i, shapes[i])] :
     shapes \in UNION {[1..n -> PubmedShapes] : n \in 0..MaxArticles}}

PmcDocsUpTo(max) ==
  {[i \in 1..Len(shapes) |-> PmcArticleOf(i, shapes[i])] :
     shapes \in UNION {[1..n -> PmcShapes] : n \in 0..max}}

\* a resolved efetch reply: XML that JSDOM parses into a document, or
\* XML that makes the parser throw
XmlReply(pubmedArticles, articles) ==
  [outcome |-> "resolved", status |-> 200,
   data |-> [wellFormed |-> TRUE, PubmedArticle |-> pubmedArticles, article |-> articles]]

MalformedReply ==
  [outcome |-> "resolved", status |-> 200,
   data |-> [wellFormed |-> FALSE, PubmedArticle |-> <<>>, article |-> <<>>]]

\* what the primary efetch can answer for the database asked
PrimaryReplies(db) ==
  Rejections \cup {MalformedReply}
  \cup (IF db = <<"pubmed">> THEN {XmlReply(d, <<>>) : d \in PubmedDocs}
        ELSE {XmlReply(<<>>, d) : d \in PmcDocsUpTo(MaxArticles)}
             \cup {XmlReply(<<>>, <<PmcArticleOf(1, [pmc |-> <<"9", "9", "9", "9">>,
                                                     profile |-> "bare"])>>)})

\* what the PMC enrichment efetch can answer
EnrichReplies == Rejections \cup {MalformedReply} \cup {XmlReply(<<>>, d) : d \in PmcDocsUpTo(MaxPmcArticles)}

KeepCleanedId_NonEmpty(id) == id # <<>>

KeepCleanedId(id) == id # <<>> /\ Trim(id) # <<>>

CleanedIds_Unfiltered(ids) == [i \in 1..Len(ids) |-> cleanPmcId(ids[i])]

\* papers.js:58 - ids.map(cleanPmcId).filter(id => id !== '' && id.trim() !== '')
CleanedIds(ids) == SelectSeq([i \in 1..Len(ids) |-> cleanPmcId(ids[i])], KeepCleanedId)

\* papers.js:74 and 246, [id].js:55 and 70 - the timeout option, in ms
FetchTimeout == 30000

\* papers.js:68-75 and 243-247 - the efetch URL and the options of axios.get
EFetchCall(db, ids) ==
  [api |-> "efetch", db |-> db, id |-> Join(ids, <<",">>), timeout |-> FetchTimeout]

HasPmcid(p) == Truthy(p.pmcid)

PmcIdsOf_All(papers) == [i \in 1..Len(papers) |-> papers[i].pmcid]

\* papers.js:241 - papers.filter(p => p.pmcid).map(p => p.pmcid)
PmcIdsOf(papers) ==
  LET kept == SelectSeq(papers, HasPmcid)
  IN [i \in 1..Len(kept) |-> kept[i].pmcid]

NormalizeAll_Reversed(db, data) ==
  IF db = <<"pubmed">>
  THEN [i \in 1..Len(data.PubmedArticle) |->
          NormalizePubmed(data.PubmedArticle[Len(data.PubmedArticle) + 1 - i])]
  ELSE [i \in 1..Len(data.article) |-> NormalizePmc(data.article[Len(data.article) + 1 - i])]

\* papers.js:82-234 - one record per PubmedArticle (pubmed) or article (pmc)
NormalizeAll(db, data) ==
  IF db = <<"pubmed">>
  THEN [i \in 1..Len(data.PubmedArticle) |-> NormalizePubmed(data.PubmedArticle[i])]
  ELSE [i \in 1..Len(data.article) |-> NormalizePmc(data.article[i])]

\* papers.js:333
PapersBody(papers) == [status |-> 200, kind |-> "papers", papers |-> papers, total |-> Len(papers)]

PapersCatch_PartialSuccess == PapersBody(local.papers)

\* papers.js:335-338
PapersCatch == ErrorResp(500, "Failed to fetch papers")

NeedsEnrichment_Always(db, papers) == db = <<"pubmed">>

\* papers.js:240-242 - the condition of the enrichment fetch
NeedsEnrichment(db, papers) == db = <<"pubmed">> /\ Len(PmcIdsOf(papers)) > 0

\* papers.js:58 - an entry that is not a string (a number, null) passes
\* cleanPmcId unchanged and has no trim method: the filter callback throws
HasNonString(ids) == \E k \in 1..Len(ids) : ids[k] = Undefined

\* req.body of a POST that carries no body
NoBodyValues(server) == IF server = "express" THEN {"undefined", "object"} ELSE {"undefined"}

\* handler of api/papers.js up to the first await
PapersReceive ==
  /\ pc = "idle"
  /\ \E r \in PapersRequests :
       /\ req' = r
       /\ replies' = replies
       /\ IF r.method = "OPTIONS"
          THEN /\ Respond(Preflight(r.server))
               /\ UNCHANGED <<local, calls>>
          ELSE IF r.method # "POST"
          THEN /\ Respond(WrongMethod(r.server))
               /\ UNCHANGED <<local, calls>>
          ELSE IF ~r.hasBody
          THEN \* destructuring undefined throws inside the try block; under
               \* Express, express.json() leaves req.body undefined or sets
               \* it to {}, depending on the version of the middleware
               /\ \E body \in NoBodyValues(r.server) :
                    IF body = "undefined" THEN Respond(PapersCatch)
                    ELSE Respond(ErrorResp(400, "IDs array is required and cannot be empty"))
               /\ UNCHANGED <<local, calls>>
          ELSE LET db == OrDefault(r.db, DefaultDb)
                   cleanedIds == CleanedIds(r.ids)
               IN IF r.idsKind # "array" \/ Len(r.ids) = 0
                  THEN /\ Respond(ErrorResp(400, "IDs array is required and cannot be empty"))
                       /\ UNCHANGED <<local, calls>>
                  ELSE IF db \notin SUPPORTED_DATABASES
                  THEN /\ Respond(ErrorResp(400, "Invalid database"))
                       /\ UNCHANGED <<local, calls>>
                  ELSE IF HasNonString(r.ids)
                  THEN /\ Respond(PapersCatch)
                       /\ UNCHANGED <<local, calls>>
                  ELSE IF Len(cleanedIds) = 0
                  THEN /\ Respond(ErrorResp(400, "No valid IDs provided after cleaning."))
                       /\ UNCHANGED <<local, calls>>
                  ELSE /\ local' = [NoLocal EXCEPT !.db = db]
                       /\ calls' = Append(calls, EFetchCall(db, cleanedIds))
                       /\ pc' = "papers_primary"
                       /\ UNCHANGED <<resp, sent>>

\* from the return of the primary efetch to the enrichment await or the response
PapersPrimaryReturn ==
  /\ pc = "papers_primary"
  /\ \E reply \in PrimaryReplies(local.db) :
       /\ replies' = Append(replies, reply)
       /\ req' = req
       /\ IF reply.outcome = "rejected" \/ ~reply.data.wellFormed
          THEN /\ Respond(PapersCatch)
               /\ UNCHANGED <<local, calls>>
          ELSE LET papers == NormalizeAll(local.db, reply.data)
               IN /\ local' = [local EXCEPT !.papers = papers]
                  /\ IF NeedsEnrichment(local.db, papers)
                     THEN /\ calls' = Append(calls, EFetchCall(<<"pmc">>, PmcIdsOf(papers)))
                          /\ pc' = "papers_enrich"
                          /\ UNCHANGED <<resp, sent>>
                     ELSE /\ Respond(PapersBody(papers))
                          /\ calls' = calls

\* from the return of the enrichment efetch to the response
PapersEnrichReturn ==
  /\ pc = "papers_enrich"
  /\ \E reply \in EnrichReplies :
       /\ replies' = Append(replies, reply)
       /\ UNCHANGED <<req, calls>>
       /\ IF reply.outcome = "rejected" \/ ~reply.data.wellFormed
          THEN /\ Respond(PapersCatch)
               /\ local' = local
          ELSE LET papers == Enrich(local.papers, reply.data.article)
               IN /\ local' = [local EXCEPT !.papers = papers]
                  /\ Respond(PapersBody(papers))

(* --------------------------- single paper ------------------------------- *)

\* the id of GET /api/paper/[id]: missing, empty, blank, the placeholder '$'
\* bare and between blanks, a PubMed id, a prefixed PMC id after a blank
PaperIdInputs ==
  {Undefined, <<>>, <<" ">>, <<"$">>, <<" ", "$", " ">>, <<"1", "1">>,
   <<" ", "P", "M", "C", "7">>}

\* the route /api/paper/:id of server.js matches a non-empty id only
PaperRequests ==
  [endpoint : {"paper"}, server : {"serverless"}, method : Methods, id : PaperIdInputs]
  \cup
  [endpoint : {"paper"}, server : {"express"}, method : Methods,
   id : {id \in PaperIdInputs : Truthy(id)}]

PaperFetchCall_AlwaysPmc(db, id) ==
  [api |-> "efetch", db |-> <<"pmc">>, id |-> encodeURIComponent(id), timeout |-> FetchTimeout]

\* [id].js:50-56 and 65-71 - the efetch URL of the single lookup and the
\* options of axios.get
PaperFetchCall(db, id) ==
  [api |-> "efetch", db |-> db, id |-> encodeURIComponent(id), timeout |-> FetchTimeout]

\* [id].js:163-232 - the record of the PubmedArticle element
SinglePubmed(a) ==
  LET authors == PubmedAuthors(a)
      cleanedPmcId == cleanPmcId(PubmedPmcId(a))
  IN [pmcid |-> cleanedPmcId,
      uid |-> TextOr(a.PMID, <<>>),
      title |-> Trim(TextOr(a.ArticleTitle, <<>>)),
      articletitle |-> Trim(PubmedAbstract(a)),
      sortfirstauthor |-> FirstAuthor(authors, Unknown),
      authors |-> Join(authors, <<",", " ">>),
      source |-> Trim(TextOr(a.MedlineTA, TextOr(a.JournalTitle, <<>>))),
      pubdate |-> PubmedPubDate(a),
      pdfUrl |-> IF Truthy(cleanedPmcId) THEN PmcPdfUrl(cleanedPmcId) ELSE <<>>]

SinglePmc_NoTrim(a) ==
  LET pmcIdParsed == cleanPmcId(TextOr(a.pmc, <<>>))
      authors == PmcAuthors(a)
  IN [pmcid |-> pmcIdParsed,
      uid |-> TextOr(a.pmid, <<>>),
      title |-> TextOr(a.title, <<>>),
      articletitle |-> Trim(PmcAbstract(a, NoAbstract)),
      sortfirstauthor |-> FirstAuthor(authors, Unknown),
      authors |-> Join(authors, <<",", " ">>),
      source |-> Trim(TextOr(a.journal, <<>>)),
      pubdate |-> PmcPubDate(a, <<>>),
      pdfUrl |-> PmcPdf(a, pmcIdParsed)]

\* [id].js:85-157 - the record of the article element of the PMC fallback
SinglePmc(a) ==
  LET pmcIdParsed == cleanPmcId(TextOr(a.pmc, <<>>))
      authors == PmcAuthors(a)
  IN [pmcid |-> pmcIdParsed,
      uid |-> TextOr(a.pmid, <<>>),
      title |-> Trim(TextOr(a.title, <<>>)),
      articletitle |-> Trim(PmcAbstract(a, NoAbstract)),
      sortfirstauthor |-> FirstAuthor(authors, Unknown),
      authors |-> Join(authors, <<",", " ">>),
      source |-> Trim(TextOr(a.journal, <<>>)),
      pubdate |-> PmcPubDate(a, <<>>),
      pdfUrl |-> PmcPdf(a, pmcIdParsed)]

\* [id].js:159 and 234 - res.json(paperData): the record is the body
PaperBody(p) ==
  [status |-> 200, kind |-> "paper", pmcid |-> p.pmcid, uid |-> p.uid, title |-> p.title,
   articletitle |-> p.articletitle, sortfirstauthor |-> p.sortfirstauthor,
   authors |-> p.authors, source |-> p.source, pubdate |-> p.pubdate, pdfUrl |-> p.pdfUrl]

\* [id].js:236-239
PaperCatch == ErrorResp(500, "Failed to fetch paper details")

\* [id].js:76-83 - neither database has the article; details is the text of
\* the ERROR element when the PMC document has one
NotFound(error) ==
  IF error # Undefined
  THEN [status |-> 404, kind |-> "error", error |-> "No article found in PubMed or PMC.",
        details |-> error]
  ELSE ErrorResp(404, "No article found in PubMed or PMC.")

\* a PMC document without article element, with or without an ERROR element
PmcErrorReply(error) ==
  [outcome |-> "resolved", status |-> 200,
   data |-> [wellFormed |-> TRUE, PubmedArticle |-> <<>>, article |-> <<>>, ERROR |-> error]]

PaperPubmedReplies == Rejections \cup {MalformedReply} \cup {XmlReply(d, <<>>) : d \in PubmedDocs}

PaperPmcReplies ==
  Rejections \cup {MalformedReply}
  \cup {XmlReply(<<>>, d) : d \in PmcDocsUpTo(MaxPmcArticles)}
  \cup {PmcErrorReply(e) : e \in {<<>>, <<"ID list is empty">>}}

\* handler of api/paper/[id].js up to the first await
PaperReceive ==
  /\ pc = "idle"
  /\ \E r \in PaperRequests :
       /\ req' = r
       /\ UNCHANGED <<replies, local>>
       /\ IF r.method = "OPTIONS"
          THEN /\ Respond(Preflight(r.server))
               /\ calls' = calls
          ELSE IF r.method # "GET"
          THEN /\ Respond(WrongMethod(r.server))
               /\ calls' = calls
          ELSE IF ~Truthy(r.id)
          THEN /\ Respond(ErrorResp(400, "Paper ID is required"))
               /\ calls' = calls
          ELSE LET pubmedId == Trim(r.id)
               IN IF pubmedId = <<"$">> \/ Trim(pubmedId) = <<>>
                  THEN /\ Respond(ErrorResp(400, "Invalid Paper ID provided."))
                       /\ calls' = calls
                  ELSE /\ calls' = Append(calls, PaperFetchCall(<<"pubmed">>, pubmedId))
                       /\ pc' = "paper_pubmed"
                       /\ UNCHANGED <<resp, sent>>

\* from the return of the PubMed efetch to the PMC await or the response
PaperPubmedReturn ==
  /\ pc = "paper_pubmed"
  /\ \E reply \in PaperPubmedReplies :
       /\ replies' = Append(replies, reply)
       /\ UNCHANGED <<req, local>>
       /\ IF reply.outcome = "rejected" \/ ~reply.data.wellFormed
          THEN /\ Respond(PaperCatch)
               /\ calls' = calls
          ELSE IF Len(reply.data.PubmedArticle) = 0
          THEN /\ calls' = Append(calls, PaperFetchCall(<<"pmc">>, Trim(req.id)))
               /\ pc' = "paper_pmc"
               /\ UNCHANGED <<resp, sent>>
          ELSE /\ Respond(PaperBody(SinglePubmed(reply.data.PubmedArticle[1])))
               /\ calls' = calls

\* from the return of the PMC efetch to the response
PaperPmcReturn ==
  /\ pc = "paper_pmc"
  /\ \E reply \in PaperPmcReplies :
       /\ replies' = Append(replies, reply)
       /\ UNCHANGED <<req, local, calls>>
       /\ IF reply.outcome = "rejected" \/ ~reply.data.wellFormed
          THEN Respond(PaperCatch)
          ELSE IF Len(reply.data.article) = 0
          THEN Respond(NotFound(IF "ERROR" \in DOMAIN reply.data THEN reply.data.ERROR
                                ELSE Undefined))
          ELSE Respond(PaperBody(SinglePmc(reply.data.article[1])))

Init ==
  /\ pc = "idle"
  /\ req = [endpoint |-> "none"]
  /\ local = NoLocal
  /\ calls = <<>>
  /\ replies = <<>>
  /\ resp = NoResp
  /\ sent = 0

Next ==
  \/ SearchReceive
  \/ SearchHistoryReturn
  \/ SearchPageReturn
  \/ PapersReceive
  \/ PapersPrimaryReturn
  \/ PapersEnrichReturn
  \/ PaperReceive
  \/ PaperPubmedReturn
  \/ PaperPmcReturn

Spec == Init /\ [][Next]_vars

\* every awaited axios.get settles: the handler waiting on it is resumed
SpecLive ==
  /\ Init /\ [][Next]_vars
  /\ WF_vars(\/ SearchHistoryReturn \/ SearchPageReturn
             \/ PapersPrimaryReturn \/ PapersEnrichReturn
             \/ PaperPubmedReturn \/ PaperPmcReturn)

(* ----------------- the ID sanitizer as a function of its input ---------- *)

\* longest input text given to the sanitizer
MaxIdLen == 6

IdAlphabet == {"P", "M", "C", "c", "7"}

\* the texts of up to MaxIdLen characters, the sample of a repeated prefix
\* before a digit, and undefined (not a string)
CleanInputs ==
  UNION {[1..n -> IdAlphabet] : n \in 0..MaxIdLen}
  \cup {<<"P", "M", "C", "P", "M", "C", "1">>, Undefined}

InitClean ==
  /\ pc = "clean_input"
  /\ req \in {[endpoint |-> "cleanPmcId", id |-> x] : x \in CleanInputs}
  /\ local = NoLocal
  /\ calls = <<>>
  /\ replies = <<>>
  /\ resp = NoResp
  /\ sent = 0

\* cleanPmcId(id)
CleanOnce ==
  /\ pc = "clean_input"
  /\ resp' = [status |-> 0, kind |-> "value", value |-> cleanPmcId(req.id)]
  /\ pc' = "clean_once"
  /\ UNCHANGED <<req, local, calls, replies, sent>>

\* cleanPmcId(cleanPmcId(id))
CleanTwice ==
  /\ pc = "clean_once"
  /\ resp' = [status |-> 0, kind |-> "value2", once |-> resp.value,
              value |-> cleanPmcId(resp.value)]
  /\ pc' = "clean_twice"
  /\ UNCHANGED <<req, local, calls, replies, sent>>

NextClean ==
  \/ CleanOnce
  \/ CleanTwice

SpecClean == InitClean /\ [][NextClean]_vars

(* ------------- the pubdate composition as a function of its input ------- *)

\* longest text of a Month / Day (month / day) element
MaxDatePartLen == 3

DateAlphabet == {"3", " "}

\* the texts of a month or day element up to MaxDatePartLen characters, a
\* month name, a two-digit value, and the missing element
DatePartTexts ==
  UNION {[1..n -> DateAlphabet] : n \in 0..MaxDatePartLen}
  \cup {<<"J", "a", "n">>, <<"1", "1">>, <<"7">>, Undefined}

YearTexts == {Undefined, <<"2", "0", "2", "1">>}

\* the pubdate a PubMed record has before the overlay
PriorDates == {<<>>, <<"2", "0", "1", "9", "-", "0", "5">>}

DateInputs ==
  [endpoint : {"pubdate"}, hasPubDate : BOOLEAN, year : YearTexts, month : DatePartTexts,
   day : DatePartTexts, statusYear : {Undefined, <<"2", "0", "1", "8">>}, prior : PriorDates]

\* a PubmedArticle whose PubDate / PubStatus elements are the input's
DatedPubmedArticle(d) ==
  [PubmedArticleOf(1, [pmc |-> <<"P", "M", "C", "7">>, profile |-> "rich"]) EXCEPT
     !.hasPubDate = d.hasPubDate, !.Year = d.year, !.Month = d.month, !.Day = d.day,
     !.PubStatusYear = d.statusYear]

\* a PMC article whose pub-date element is the input's
DatedPmcArticle(d) ==
  [PmcArticleOf(1, [pmc |-> <<"P", "M", "C", "7">>, profile |-> "rich"]) EXCEPT
     !.hasPubDate = d.hasPubDate, !.year = d.year, !.month = d.month, !.day = d.day]

InitDate ==
  /\ pc = "date_input"
  /\ req \in DateInputs
  /\ local = NoLocal
  /\ calls = <<>>
  /\ replies = <<>>
  /\ resp = NoResp
  /\ sent = 0

DateResult(path, value) ==
  /\ pc = "date_input"
  /\ resp' = [status |-> 0, kind |-> "value", path |-> path, value |-> value]
  /\ pc' = "date_done"
  /\ UNCHANGED <<req, local, calls, replies, sent>>

\* papers.js:112-127
DatePubmed == DateResult("pubmed", NormalizePubmed(DatedPubmedArticle(req)).pubdate)

\* papers.js:182-195
DatePmc == DateResult("pmc", NormalizePmc(DatedPmcArticle(req)).pubdate)

\* papers.js:277-290
DateEnrich ==
  DateResult("enrich",
             Overlay([NormalizePubmed(DatedPubmedArticle(req)) EXCEPT !.pubdate = req.prior],
                     DatedPmcArticle(req), <<"7">>).pubdate)

\* [id].js:190-205
DateSinglePubmed == DateResult("single_pubmed", SinglePubmed(DatedPubmedArticle(req)).pubdate)

\* [id].js:107-120
DateSinglePmc == DateResult("single_pmc", SinglePmc(DatedPmcArticle(req)).pubdate)

NextDate ==
  \/ DatePubmed
  \/ DatePmc
  \/ DateEnrich
  \/ DateSinglePubmed
  \/ DateSinglePmc

SpecDate == InitDate /\ [][NextDate]_vars

(* ------------------------- concurrent requests -------------------------- *)

\* The same handlers, with several requests in flight at once: every
\* variable is a function of the request slot, and the steps of different
\* requests interleave at the awaits.

\* number of requests in flight together
MaxRequests == 2

Slots == 1..MaxRequests

\* the bindings a handler invocation works on: term, db, start, max, count,
\* webenv, querykey (search.js:28-74), ids, cleanedIds, xmlDoc, papers
\* (papers.js:45-80) are const/let inside the handler function, so every
\* invocation has its own
LocalsOf_ModuleLevel(i) == 1

LocalsOf(i) == i

ConcSearchRequests ==
  {[endpoint |-> "search", server |-> "serverless", method |-> "GET",
    term |-> <<"c", "a", "n", "c", "e", "r">>, db |-> Undefined,
    retstart |-> <<"0">>, retmax |-> <<"2">>],
   [endpoint |-> "search", server |-> "express", method |-> "GET",
    term |-> <<"a", " ", "b">>, db |-> <<"pubmed">>,
    retstart |-> <<"1">>, retmax |-> <<"3">>],
   [endpoint |-> "search", server |-> "serverless", method |-> "GET",
    term |-> Undefined, db |-> Undefined, retstart |-> Undefined, retmax |-> Undefined]}

\* what the upstream answers to the call a handler awaits at the step
ConcReplies(step, db) ==
  CASE step = "search_history" ->
         {[outcome |-> "rejected", cause |-> "response", status |-> 429]}
         \cup Resolved(200, {[ERROR |-> Undefined, count |-> <<"2">>, webenv |-> <<"W">>,
                              querykey |-> <<"1">>, hasIdlist |-> FALSE, idlist |-> <<>>],
                             [ERROR |-> Undefined, count |-> <<"1">>, webenv |-> <<"V">>,
                              querykey |-> <<"2">>, hasIdlist |-> FALSE, idlist |-> <<>>]})
    [] step = "search_page" ->
         {[outcome |-> "rejected", cause |-> "request", status |-> 0],
          [outcome |-> "resolved", status |-> 200,
           data |-> [esearchresult |-> [ERROR |-> Undefined, count |-> Undefined, webenv |-> Undefined,
                                        querykey |-> Undefined, hasIdlist |-> TRUE,
                                        idlist |-> SubSeq(IdPool, 1, 2)]]]}
    [] step = "papers_primary" ->
         {[outcome |-> "rejected", cause |-> "response", status |-> 502]}
         \cup (IF db = <<"pubmed">>
               THEN {XmlReply(<<PubmedArticleOf(1, [pmc |-> <<"P", "M", "C", "7">>, profile |-> "rich"])>>, <<>>),
                     XmlReply(<<PubmedArticleOf(1, [pmc |-> <<"8">>, profile |-> "rich"])>>, <<>>)}
               ELSE {XmlReply(<<>>, <<PmcArticleOf(1, [pmc |-> <<"p", "m", "c", "7">>, profile |-> "rich"])>>)})
    [] step = "papers_enrich" ->
         {[outcome |-> "rejected", cause |-> "request", status |-> 0],
          XmlReply(<<>>, <<PmcArticleOf(1, [pmc |-> <<"p", "m", "c", "7">>, profile |-> "rich"])>>),
          XmlReply(<<>>, <<PmcArticleOf(2, [pmc |-> <<"8">>, profile |-> "rich"])>>)}
    [] step = "paper_pubmed" ->
         {XmlReply(<<>>, <<>>),
          XmlReply(<<PubmedArticleOf(1, [pmc |-> <<"P", "M", "C", "7">>, profile |-> "rich"])>>, <<>>)}
    [] step = "paper_pmc" ->
         {XmlReply(<<>>, <<PmcArticleOf(1, [pmc |-> <<"p", "m", "c", "7">>, profile |-> "rich"])>>),
          PmcErrorReply(<<"ID list is empty">>)}

ConcRespond(i, r) ==
  /\ resp' = [resp EXCEPT ![i] = r]
  /\ sent' = [sent EXCEPT ![i] = sent[i] + 1]
  /\ pc' = [pc EXCEPT ![i] = "done"]

\* request i is received by the search handler (search.js:8-56)
SearchReceiveAt(i, r) ==
  /\ pc[i] = "idle"
  /\ req' = [req EXCEPT ![i] = r]
  /\ replies' = replies
  /\ IF r.method = "OPTIONS"
     THEN ConcRespond(i, Preflight(r.server)) /\ UNCHANGED <<local, calls>>
     ELSE IF r.method # "GET"
     THEN ConcRespond(i, WrongMethod(r.server)) /\ UNCHANGED <<local, calls>>
     ELSE LET db == OrDefault(r.db, DefaultDb)
              start == parseInt(OrDefault(r.retstart, DefaultRetstart))
              max == parseInt(OrDefault(r.retmax, DefaultRetmax))
          IN IF ~Truthy(r.term)
             THEN /\ ConcRespond(i, ErrorResp(400, "Search term is required"))
                  /\ UNCHANGED <<local, calls>>
             ELSE IF db \notin SUPPORTED_DATABASES
             THEN /\ ConcRespond(i, ErrorResp(400, "Invalid database"))
                  /\ UNCHANGED <<local, calls>>
             ELSE IF ~ValidRetstart(start)
             THEN /\ ConcRespond(i, ErrorResp(400, "retstart must be a non-negative integer"))
                  /\ UNCHANGED <<local, calls>>
             ELSE IF ~ValidRetmax(max)
             THEN /\ ConcRespond(i, ErrorResp(400, "retmax must be a positive integer, max 10000"))
                  /\ UNCHANGED <<local, calls>>
             ELSE /\ local' = [local EXCEPT ![LocalsOf(i)] =
                                 [NoLocal EXCEPT !.start = start.val, !.max = max.val, !.db = db]]
                  /\ calls' = [calls EXCEPT ![i] = Append(calls[i], HistoryCall(db, r.term))]
                  /\ pc' = [pc EXCEPT ![i] = "search_history"]
                  /\ UNCHANGED <<resp, sent>>

ConcSearchReceive(i) == \E r \in ConcSearchRequests : SearchReceiveAt(i, r)

\* the first axios.get of request i returns (search.js:56-94)
ConcSearchHistoryReturn(i) ==
  /\ pc[i] = "search_history"
  /\ \E reply \in ConcReplies(pc[i], Undefined) :
       LET mine == local[LocalsOf(i)]
       IN /\ replies' = [replies EXCEPT ![i] = Append(replies[i], reply)]
          /\ req' = req
          /\ IF reply.outcome = "rejected"
             THEN ConcRespond(i, SearchCatch(reply)) /\ UNCHANGED <<local, calls>>
             ELSE IF reply.status # 200
             THEN /\ ConcRespond(i, ErrorResp(reply.status, "ESearch History API Error"))
                  /\ UNCHANGED <<local, calls>>
             ELSE IF "esearchresult" \notin DOMAIN reply.data
             THEN /\ ConcRespond(i, SearchCatch([outcome |-> "thrown"]))
                  /\ UNCHANGED <<local, calls>>
             ELSE LET esearchResult == reply.data.esearchresult
                      parsed == parseInt(esearchResult.count)
                      count == IF parsed.nan THEN 0 ELSE parsed.val
                      webenv == esearchResult.webenv
                      querykey == esearchResult.querykey
                      kept == [mine EXCEPT !.count = count, !.webenv = webenv,
                                           !.querykey = querykey]
                  IN IF Truthy(esearchResult.ERROR)
                     THEN /\ ConcRespond(i, ErrorResp(500, "ESearch History API Error"))
                          /\ UNCHANGED <<local, calls>>
                     ELSE IF TokensMissing(webenv, querykey)
                     THEN /\ ConcRespond(i, ErrorResp(500, "ESearch History API did not return required WebEnv or QueryKey"))
                          /\ local' = [local EXCEPT ![LocalsOf(i)] = [mine EXCEPT !.count = count]]
                          /\ calls' = calls
                     ELSE IF BeyondCount(mine.start, count)
                     THEN /\ ConcRespond(i, SearchBody(<<>>, count, mine.start, mine.max))
                          /\ local' = [local EXCEPT ![LocalsOf(i)] = kept]
                          /\ calls' = calls
                     ELSE /\ local' = [local EXCEPT ![LocalsOf(i)] = kept]
                          /\ calls' = [calls EXCEPT ![i] =
                                         Append(calls[i], PageCall(mine.db, querykey, webenv,
                                                                   mine.start, mine.max))]
                          /\ pc' = [pc EXCEPT ![i] = "search_page"]
                          /\ UNCHANGED <<resp, sent>>

\* the second axios.get of request i returns (search.js:94-119)
ConcSearchPageReturn(i) ==
  /\ pc[i] = "search_page"
  /\ \E reply \in ConcReplies(pc[i], Undefined) :
       LET mine == local[LocalsOf(i)]
       IN /\ replies' = [replies EXCEPT ![i] = Append(replies[i], reply)]
          /\ UNCHANGED <<req, local, calls>>
          /\ IF reply.outcome = "rejected"
             THEN ConcRespond(i, SearchCatch(reply))
             ELSE IF reply.status # 200
             THEN ConcRespond(i, ErrorResp(reply.status, "ESearch API Error for specific IDs"))
             ELSE IF "esearchresult" \notin DOMAIN reply.data
             THEN ConcRespond(i, SearchCatch([outcome |-> "thrown"]))
             ELSE LET esearchResultIds == reply.data.esearchresult
                      idList == IF esearchResultIds.hasIdlist THEN esearchResultIds.idlist
                                ELSE <<>>
                  IN IF Truthy(esearchResultIds.ERROR)
                     THEN ConcRespond(i, ErrorResp(500, "ESearch API Error for specific IDs"))
                     ELSE ConcRespond(i, SearchBody(idList, mine.count, mine.start, mine.max))

ConcPapersRequests ==
  {[endpoint |-> "papers", server |-> "serverless", method |-> "POST", hasBody |-> TRUE,
    idsKind |-> "array", ids |-> <<<<"8">>, <<"p", "m", "c", "7">>>>, db |-> <<"pubmed">>],
   [endpoint |-> "papers", server |-> "express", method |-> "POST", hasBody |-> TRUE,
    idsKind |-> "array", ids |-> <<<<"P", "M", "C", "7">>>>, db |-> Undefined],
   [endpoint |-> "papers", server |-> "serverless", method |-> "POST", hasBody |-> TRUE,
    idsKind |-> "missing", ids |-> <<>>, db |-> Undefined]}

\* request i is received by the batch handler (papers.js:33-75)
PapersReceiveAt(i, r) ==
  /\ pc[i] = "idle"
  /\ req' = [req EXCEPT ![i] = r]
  /\ replies' = replies
  /\ IF r.method = "OPTIONS"
     THEN ConcRespond(i, Preflight(r.server)) /\ UNCHANGED <<local, calls>>
     ELSE IF r.method # "POST"
     THEN ConcRespond(i, WrongMethod(r.server)) /\ UNCHANGED <<local, calls>>
     ELSE IF ~r.hasBody
     THEN /\ \E body \in NoBodyValues(r.server) :
               IF body = "undefined" THEN ConcRespond(i, PapersCatch)
               ELSE ConcRespond(i, ErrorResp(400, "IDs array is required and cannot be empty"))
          /\ UNCHANGED <<local, calls>>
     ELSE LET db == OrDefault(r.db, DefaultDb)
              cleanedIds == CleanedIds(r.ids)
          IN IF r.idsKind # "array" \/ Len(r.ids) = 0
             THEN /\ ConcRespond(i, ErrorResp(400, "IDs array is required and cannot be empty"))
                  /\ UNCHANGED <<local, calls>>
             ELSE IF db \notin SUPPORTED_DATABASES
             THEN /\ ConcRespond(i, ErrorResp(400, "Invalid database"))
                  /\ UNCHANGED <<local, calls>>
             ELSE IF HasNonString(r.ids)
             THEN /\ ConcRespond(i, PapersCatch)
                  /\ UNCHANGED <<local, calls>>
             ELSE IF Len(cleanedIds) = 0
             THEN /\ ConcRespond(i, ErrorResp(400, "No valid IDs provided after cleaning."))
                  /\ UNCHANGED <<local, calls>>
             ELSE /\ local' = [local EXCEPT ![LocalsOf(i)] = [NoLocal EXCEPT !.db = db]]
                  /\ calls' = [calls EXCEPT ![i] = Append(calls[i], EFetchCall(db, cleanedIds))]
                  /\ pc' = [pc EXCEPT ![i] = "papers_primary"]
                  /\ UNCHANGED <<resp, sent>>

ConcPapersReceive(i) == \E r \in ConcPapersRequests : PapersReceiveAt(i, r)

\* the primary efetch of request i returns (papers.js:72-247)
ConcPapersPrimaryReturn(i) ==
  /\ pc[i] = "papers_primary"
  /\ LET mine == local[LocalsOf(i)]
     IN \E reply \in ConcReplies(pc[i], mine.db) :
          /\ replies' = [replies EXCEPT ![i] = Append(replies[i], reply)]
          /\ req' = req
          /\ IF reply.outcome = "rejected" \/ ~reply.data.wellFormed
             THEN ConcRespond(i, PapersCatch) /\ UNCHANGED <<local, calls>>
             ELSE LET papers == NormalizeAll(mine.db, reply.data)
                  IN /\ local' = [local EXCEPT ![LocalsOf(i)] = [mine EXCEPT !.papers = papers]]
                     /\ IF NeedsEnrichment(mine.db, papers)
                        THEN /\ calls' = [calls EXCEPT ![i] =
                                            Append(calls[i], EFetchCall(<<"pmc">>, PmcIdsOf(papers)))]
                             /\ pc' = [pc EXCEPT ![i] = "papers_enrich"]
                             /\ UNCHANGED <<resp, sent>>
                        ELSE /\ ConcRespond(i, PapersBody(papers))
                             /\ calls' = calls

\* the enrichment efetch of request i returns (papers.js:244-338)
ConcPapersEnrichReturn(i) ==
  /\ pc[i] = "papers_enrich"
  /\ \E reply \in ConcReplies(pc[i], Undefined) :
       LET mine == local[LocalsOf(i)]
       IN /\ replies' = [replies EXCEPT ![i] = Append(replies[i], reply)]
          /\ UNCHANGED <<req, calls>>
          /\ IF reply.outcome = "rejected" \/ ~reply.data.wellFormed
             THEN ConcRespond(i, PapersCatch) /\ local' = local
             ELSE LET papers == Enrich(mine.papers, reply.data.article)
                  IN /\ local' = [local EXCEPT ![LocalsOf(i)] = [mine EXCEPT !.papers = papers]]
                     /\ ConcRespond(i, PapersBody(papers))

ConcPaperRequests ==
  {[endpoint |-> "paper", server |-> "serverless", method |-> "GET", id |-> <<"1", "1">>],
   [endpoint |-> "paper", server |-> "express", method |-> "GET",
    id |-> <<" ", "P", "M", "C", "7">>]}

\* request i is received by the single lookup ([id].js:25-56)
PaperReceiveAt(i, r) ==
  /\ pc[i] = "idle"
  /\ req' = [req EXCEPT ![i] = r]
  /\ UNCHANGED <<replies, local>>
  /\ IF r.method = "OPTIONS"
     THEN ConcRespond(i, Preflight(r.server)) /\ calls' = calls
     ELSE IF r.method # "GET"
     THEN ConcRespond(i, WrongMethod(r.server)) /\ calls' = calls
     ELSE IF ~Truthy(r.id)
     THEN ConcRespond(i, ErrorResp(400, "Paper ID is required")) /\ calls' = calls
     ELSE LET pubmedId == Trim(r.id)
          IN IF pubmedId = <<"$">> \/ Trim(pubmedId) = <<>>
             THEN /\ ConcRespond(i, ErrorResp(400, "Invalid Paper ID provided."))
                  /\ calls' = calls
             ELSE /\ calls' = [calls EXCEPT ![i] =
                                 Append(calls[i], PaperFetchCall(<<"pubmed">>, pubmedId))]
                  /\ pc' = [pc EXCEPT ![i] = "paper_pubmed"]
                  /\ UNCHANGED <<resp, sent>>

ConcPaperReceive(i) == \E r \in ConcPaperRequests : PaperReceiveAt(i, r)

\* the PubMed efetch of lookup i returns ([id].js:53-71, 163-234)
ConcPaperPubmedReturn(i) ==
  /\ pc[i] = "paper_pubmed"
  /\ \E reply \in ConcReplies(pc[i], Undefined) :
       /\ replies' = [replies EXCEPT ![i] = Append(replies[i], reply)]
       /\ UNCHANGED <<req, local>>
       /\ IF reply.outcome = "rejected" \/ ~reply.data.wellFormed
          THEN ConcRespond(i, PaperCatch) /\ calls' = calls
          ELSE IF Len(reply.data.PubmedArticle) = 0
          THEN /\ calls' = [calls EXCEPT ![i] =
                              Append(calls[i], PaperFetchCall(<<"pmc">>, Trim(req[i].id)))]
               /\ pc' = [pc EXCEPT ![i] = "paper_pmc"]
               /\ UNCHANGED <<resp, sent>>
          ELSE /\ ConcRespond(i, PaperBody(SinglePubmed(reply.data.PubmedArticle[1])))
               /\ calls' = calls

\* the PMC efetch of lookup i returns ([id].js:68-160)
ConcPaperPmcReturn(i) ==
  /\ pc[i] = "paper_pmc"
  /\ \E reply \in ConcReplies(pc[i], Undefined) :
       /\ replies' = [replies EXCEPT ![i] = Append(replies[i], reply)]
       /\ UNCHANGED <<req, local, calls>>
       /\ IF reply.outcome = "rejected" \/ ~reply.data.wellFormed
          THEN ConcRespond(i, PaperCatch)
          ELSE IF Len(reply.data.article) = 0
          THEN ConcRespond(i, NotFound(IF "ERROR" \in DOMAIN reply.data THEN reply.data.ERROR
                                       ELSE Undefined))
          ELSE ConcRespond(i, PaperBody(SinglePmc(reply.data.article[1])))

InitConc ==
  /\ pc = [i \in Slots |-> "idle"]
  /\ req = [i \in Slots |-> [endpoint |-> "none"]]
  /\ local = [i \in Slots |-> NoLocal]
  /\ calls = [i \in Slots |-> <<>>]
  /\ replies = [i \in Slots |-> <<>>]
  /\ resp = [i \in Slots |-> NoResp]
  /\ sent = [i \in Slots |-> 0]

NextConc ==
  \/ \E i \in Slots : ConcSearchReceive(i)
  \/ \E i \in Slots : ConcSearchHistoryReturn(i)
  \/ \E i \in Slots : ConcSearchPageReturn(i)
  \/ \E i \in Slots : ConcPapersReceive(i)
  \/ \E i \in Slots : ConcPapersPrimaryReturn(i)
  \/ \E i \in Slots : ConcPapersEnrichReturn(i)
  \/ \E i \in Slots : ConcPaperReceive(i)
  \/ \E i \in Slots : ConcPaperPubmedReturn(i)
  \/ \E i \in Slots : ConcPaperPmcReturn(i)

SpecConc == InitConc /\ [][NextConc]_vars

(* ------------------------ the two implementations ----------------------- *)

\* The same request given to the serverless handler (side 1) and to the
\* Express route (side 2), each with its own upstream replies.

Sides == {1, 2}

Implementation(i) == IF i = 1 THEN "serverless" ELSE "express"

\* the requests of the set as side i receives them: the parameters the other
\* side received, when it has received its request
Admissible(i, requests) ==
  {r \in {[q EXCEPT !.server = Implementation(i)] : q \in requests} :
     \A j \in Sides \ {i} :
       pc[j] # "idle" => [req[j] EXCEPT !.server = Implementation(i)] = r}

\* search.js:8-56 / server.js:17-47
PairSearchReceive(i) == \E r \in Admissible(i, ConcSearchRequests) : SearchReceiveAt(i, r)

\* papers.js:33-75 / server.js:141-171
PairPapersReceive(i) ==
  LET bodyless == [endpoint |-> "papers", server |-> "serverless", method |-> "POST",
                   hasBody |-> FALSE, idsKind |-> "missing", ids |-> <<>>, db |-> Undefined]
  IN \E r \in Admissible(i, ConcPapersRequests \cup {bodyless}) : PapersReceiveAt(i, r)

\* [id].js:25-56 / server.js:440-461
PairPaperReceive(i) == \E r \in Admissible(i, ConcPaperRequests) : PaperReceiveAt(i, r)

InitPair ==
  /\ pc = [i \in Sides |-> "idle"]
  /\ req = [i \in Sides |-> [endpoint |-> "none"]]
  /\ local = [i \in Sides |-> NoLocal]
  /\ calls = [i \in Sides |-> <<>>]
  /\ replies = [i \in Sides |-> <<>>]
  /\ resp = [i \in Sides |-> NoResp]
  /\ sent = [i \in Sides |-> 0]

NextPair ==
  \/ \E i \in Sides : PairSearchReceive(i)
  \/ \E i \in Sides : ConcSearchHistoryReturn(i)
  \/ \E i \in Sides : ConcSearchPageReturn(i)
  \/ \E i \in Sides : PairPapersReceive(i)
  \/ \E i \in Sides : ConcPapersPrimaryReturn(i)
  \/ \E i \in Sides : ConcPapersEnrichReturn(i)
  \/ \E i \in Sides : PairPaperReceive(i)
  \/ \E i \in Sides : ConcPaperPubmedReturn(i)
  \/ \E i \in Sides : ConcPaperPmcReturn(i)

SpecPair == InitPair /\ [][NextPair]_vars

(* --------------- the PDF link as a function of the article --------------- *)

\* most self-uri elements and most ext-link elements of an article
MaxLinks == 2

\* self-uri elements: a PDF with an absolute href, a PDF with a relative
\* href, an HTML page, a PDF without href, an element without content-type
SelfUriElements ==
  {[contentType |-> <<"application/", "PDF">>, href |-> <<"http", "://host/own", ".pdf">>],
   [contentType |-> <<"pdf">>, href |-> <<"own", ".pdf">>],
   [contentType |-> <<"text/html">>, href |-> <<"http", "://host/page">>],
   [contentType |-> <<"pdf">>, href |-> Undefined],
   [contentType |-> Undefined, href |-> <<"http", "://host/other", ".pdf">>]}

\* hrefs of ext-link elements: a page, two PDF files, no href
ExtLinkHrefs ==
  {<<"http", "://host/page">>, <<"http", "://host/full", ".PDF">>,
   <<"http", "://host/second", ".pdf">>, Undefined}

PdfInputs ==
  [endpoint : {"pdfUrl"},
   pmc : {<<"P", "M", "C", "7">>, Undefined},
   selfUri : UNION {[1..n -> SelfUriElements] : n \in 0..MaxLinks},
   extLink : UNION {[1..n -> ExtLinkHrefs] : n \in 0..MaxLinks}]

\* a PMC article whose self-uri and ext-link elements are the input's
LinkedPmcArticle(d) ==
  [PmcArticleOf(1, [pmc |-> d.pmc, profile |-> "bare"]) EXCEPT
     !.selfUri = d.selfUri, !.extLink = d.extLink]

InitPdf ==
  /\ pc = "pdf_input"
  /\ req \in PdfInputs
  /\ local = NoLocal
  /\ calls = <<>>
  /\ replies = <<>>
  /\ resp = NoResp
  /\ sent = 0

PdfResult(path, value) ==
  /\ pc = "pdf_input"
  /\ resp' = [status |-> 0, kind |-> "value", path |-> path, value |-> value]
  /\ pc' = "pdf_done"
  /\ UNCHANGED <<req, local, calls, replies, sent>>

\* papers.js:197-220
PdfPmc == PdfResult("pmc", NormalizePmc(LinkedPmcArticle(req)).pdfUrl)

\* papers.js:292-315
PdfEnrich ==
  PdfResult("enrich",
            Overlay(NormalizePubmed(PubmedArticleOf(1, [pmc |-> <<"P", "M", "C", "7">>,
                                                        profile |-> "rich"])),
                    LinkedPmcArticle(req), cleanPmcId(TextOr(req.pmc, <<>>))).pdfUrl)

\* [id].js:122-145
PdfSinglePmc == PdfResult("single_pmc", SinglePmc(LinkedPmcArticle(req)).pdfUrl)

NextPdf ==
  \/ PdfPmc
  \/ PdfEnrich
  \/ PdfSinglePmc

SpecPdf == InitPdf /\ [][NextPdf]_vars

(* ---------------------------- search claims ----------------------------- *)

IsSearchGet == req.endpoint = "search" /\ req.method = "GET"

\* the values the handler validates: the parameter, or its default when absent
ReqDb == OrDefault(req.db, DefaultDb)
ReqStart == parseInt(OrDefault(req.retstart, DefaultRetstart))
ReqMax == parseInt(OrDefault(req.retmax, DefaultRetmax))

ValidSearchRequest ==
  /\ IsSearchGet
  /\ Truthy(req.term)
  /\ ReqDb \in SUPPORTED_DATABASES
  /\ ~ReqStart.nan /\ ReqStart.val >= 0
  /\ ~ReqMax.nan /\ ReqMax.val > 0 /\ ReqMax.val <= 10000

IsSuccess == resp.kind = "search" /\ resp.status = 200

IsJsonError == resp.kind = "error"

\* the first upstream reply came back with HTTP 200 and an esearchresult object
FirstHasResult ==
  /\ Len(replies) >= 1
  /\ replies[1].outcome = "resolved"
  /\ replies[1].status = 200
  /\ "esearchresult" \in DOMAIN replies[1].data

FirstResult == replies[1].data.esearchresult

\* the hit count of the first reply: its count text parsed, 0 when that fails
FirstCount == IF parseInt(FirstResult.count).nan THEN 0 ELSE parseInt(FirstResult.count).val

\* C1: a GET /api/search whose db is not pubmed/pmc, whose retstart does not
\* parse as a non-negative integer, or whose retmax does not parse as an
\* integer in 1..10000, is answered 4xx and makes no upstream call.
C1_InvalidSearchRejected ==
  (IsSearchGet /\ ( \/ ReqDb \notin {<<"pubmed">>, <<"pmc">>}
                    \/ ReqStart.nan \/ ReqStart.val < 0
                    \/ ReqMax.nan \/ ReqMax.val <= 0 \/ ReqMax.val > 10000 ))
  => (pc = "done" /\ sent = 1 /\ resp.status \in 400..499 /\ IsJsonError /\ calls = <<>>)

\* C1 witness: a request with a term, a supported db and retmax=10001 was rejected
C1_Witness ==
  /\ IsSearchGet /\ Truthy(req.term) /\ ReqDb = <<"pubmed">>
  /\ req.retmax = <<"1", "0", "0", "0", "1">> /\ ~ReqStart.nan /\ ReqStart.val >= 0
  /\ pc = "done" /\ resp.status = 400 /\ calls = <<>>

\* C2 as stated: for a valid request, whenever retstart >= the count the first
\* reply reports, the answer is the success {ids: [], total: count} after one
\* call, whatever else the first reply contains.
C2_Original_ShortCircuitAnyContent ==
  (ValidSearchRequest /\ FirstHasResult /\ ~parseInt(FirstResult.count).nan
     /\ ReqStart.val >= parseInt(FirstResult.count).val)
  => (pc = "done" /\ IsSuccess /\ resp.ids = <<>>
        /\ resp.total = parseInt(FirstResult.count).val /\ Len(calls) = 1)

\* C2 amended: for a valid request whose first call returned HTTP 200 with no
\* non-empty ERROR and with non-empty webenv and querykey, retstart >= count
\* (count parsed from the reply, 0 when absent or not numeric) gives the success
\* {ids: [], total: count, retstart, retmax} and no second call.
C2_ShortCircuit ==
  (ValidSearchRequest /\ FirstHasResult
     /\ ~Truthy(FirstResult.ERROR) /\ Truthy(FirstResult.webenv) /\ Truthy(FirstResult.querykey)
     /\ ReqStart.val >= FirstCount)
  => (pc = "done" /\ sent = 1 /\ IsSuccess /\ resp.ids = <<>> /\ resp.total = FirstCount
        /\ resp.retstart = ReqStart.val /\ resp.retmax = ReqMax.val /\ Len(calls) = 1)

\* C2 witness: retstart=3 against a reported count of 2 gave the empty page
C2_Witness ==
  /\ ValidSearchRequest /\ FirstHasResult /\ FirstResult.count = <<"2">>
  /\ req.retstart = <<"3">> /\ pc = "done" /\ IsSuccess
  /\ resp.ids = <<>> /\ resp.total = 2 /\ Len(calls) = 1

\* the second call of a search request is the paging call built from the
\* first reply's tokens
SecondCallScoped ==
  /\ FirstHasResult
  /\ ~Truthy(FirstResult.ERROR)
  /\ Truthy(FirstResult.webenv) /\ Truthy(FirstResult.querykey)
  /\ ReqStart.val < FirstCount
  /\ DOMAIN calls[2] = {"api", "db", "query_key", "WebEnv", "retstart", "retmax"}
  /\ calls[2].api = "esearch"
  /\ calls[2].db = ReqDb
  /\ calls[2].WebEnv = FirstResult.webenv
  /\ calls[2].query_key = FirstResult.querykey
  /\ calls[2].retstart = ReqStart.val
  /\ calls[2].retmax = ReqMax.val

\* C3: the second search call is made only after a first reply with both
\* tokens, no error and retstart < count; it carries exactly those tokens, the
\* parsed retstart and retmax and no term; a search makes at most two calls and
\* exactly two whenever it is answered with a page that is not the short-circuit.
C3_SecondCallOrdering ==
  req.endpoint = "search" =>
    /\ Len(calls) <= 2
    /\ Len(calls) = 2 => SecondCallScoped
    /\ Len(calls) >= 1 => (ValidSearchRequest /\ "term" \in DOMAIN calls[1]
                           /\ Len(replies) >= Len(calls) - 1)
    /\ (pc = "done" /\ IsSuccess /\ ~(ReqStart.val >= FirstCount)) => Len(calls) = 2

\* C3 witness: a request with retstart=1 was answered after two calls
C3_Witness ==
  /\ req.endpoint = "search" /\ pc = "done" /\ IsSuccess
  /\ Len(calls) = 2 /\ calls[2].retstart = 1 /\ calls[2].WebEnv = <<"W">>

\* C4 as stated: a first reply that carries an ERROR member, or lacks webenv or
\* querykey (also by lacking esearchresult), is answered 500 with a JSON error
\* and no second call.
C4_Original_ProtocolError ==
  (req.endpoint = "search" /\ Len(replies) >= 1 /\ replies[1].outcome = "resolved"
     /\ ( \/ "esearchresult" \notin DOMAIN replies[1].data
          \/ FirstResult.ERROR # Undefined
          \/ ~Truthy(FirstResult.webenv)
          \/ ~Truthy(FirstResult.querykey) ))
  => (pc = "done" /\ resp.status = 500 /\ IsJsonError /\ Len(calls) = 1)

\* C4 amended: when the first call returns HTTP 200 and its reply carries a
\* non-empty ERROR, or lacks a non-empty webenv or querykey, or has no
\* esearchresult object, the request is answered 500 with a JSON error body and
\* no second call is made.
C4_ProtocolError ==
  (req.endpoint = "search" /\ Len(replies) >= 1 /\ replies[1].outcome = "resolved"
     /\ replies[1].status = 200
     /\ ( \/ "esearchresult" \notin DOMAIN replies[1].data
          \/ Truthy(FirstResult.ERROR)
          \/ ~Truthy(FirstResult.webenv)
          \/ ~Truthy(FirstResult.querykey) ))
  => (pc = "done" /\ sent = 1 /\ resp.status = 500 /\ IsJsonError /\ Len(calls) = 1)

\* C4 witness: a reply with a webenv but no querykey, and no ERROR, was answered 500
C4_Witness ==
  /\ FirstHasResult /\ FirstResult.ERROR = Undefined
  /\ FirstResult.webenv = <<"W">> /\ FirstResult.querykey = Undefined
  /\ pc = "done" /\ resp.status = 500 /\ Len(calls) = 1

\* the id list the second reply carries, [] when it has none
SecondIds ==
  IF replies[2].data.esearchresult.hasIdlist THEN replies[2].data.esearchresult.idlist
  ELSE <<>>

\* C5: a successful search that was not short-circuited answers
\* {ids, total, retstart, retmax}: ids is the second reply's id list in its
\* order ([] without idlist), total the first reply's count, retstart and
\* retmax the parsed request values.
C5_PageResponse ==
  (req.endpoint = "search" /\ pc = "done" /\ IsSuccess /\ Len(calls) = 2)
  => /\ Len(replies) = 2
     /\ DOMAIN resp = {"status", "kind", "ids", "total", "retstart", "retmax"}
     /\ resp.ids = SecondIds
     /\ resp.total = parseInt(FirstResult.count).val
     /\ resp.retstart = ReqStart.val
     /\ resp.retmax = ReqMax.val

\* C5 witness: count=157, retstart=0, retmax=2, upstream ids 123,456
C5_Witness ==
  /\ req.endpoint = "search" /\ pc = "done" /\ Len(calls) = 2
  /\ resp = [status |-> 200, kind |-> "search", ids |-> <<<<"1", "2", "3">>, <<"4", "5", "6">>>>,
             total |-> 157, retstart |-> 0, retmax |-> 2]

(* --------------------------- sanitizer claim ---------------------------- *)

\* the text begins with PMC in some casing
HasPmcPrefix(id) ==
  Len(id) >= 3 /\ id[1] \in {"P", "p"} /\ id[2] \in {"M", "m"} /\ id[3] \in {"C", "c"}

\* C6: for every string the sanitizer's result never begins with PMC in any
\* casing, and sanitizing twice gives the result of sanitizing once.
C6_SanitizerStripsAndIdempotent ==
  /\ (pc \in {"clean_once", "clean_twice"} /\ req.id # Undefined) => ~HasPmcPrefix(resp.value)
  /\ (pc = "clean_twice" /\ req.id # Undefined) => resp.value = resp.once

(* ----------------------------- papers claims ---------------------------- *)

PapersSuccess == req.endpoint = "papers" /\ pc = "done" /\ resp.kind = "papers"

\* the primary efetch came back with a document JSDOM parsed
PrimaryParsed ==
  /\ req.endpoint = "papers"
  /\ Len(replies) >= 1
  /\ replies[1].outcome = "resolved"
  /\ replies[1].data.wellFormed

\* the article elements of the primary reply the handler iterates over
SourceArticles ==
  IF local.db = <<"pubmed">> THEN replies[1].data.PubmedArticle ELSE replies[1].data.article

\* uid and sanitized pmcid of a source article, read from its elements
SourceUid(a) == IF local.db = <<"pubmed">> THEN TextOr(a.PMID, <<>>) ELSE TextOr(a.pmid, <<>>)

SourcePmcid(a) ==
  IF local.db = <<"pubmed">>
  THEN (IF a.hasArticleIdList /\ a.pmc # Undefined THEN cleanPmcId(a.pmc) ELSE <<>>)
  ELSE cleanPmcId(TextOr(a.pmc, <<>>))

\* the record the first pass builds for the i-th source article
FirstPass(i) ==
  IF local.db = <<"pubmed">> THEN NormalizePubmed(SourceArticles[i])
  ELSE NormalizePmc(SourceArticles[i])

\* the non-empty sanitized pmcids of the source articles, in document order
NonEmptyText(x) == x # <<>>

SourcePmcids ==
  SelectSeq([i \in 1..Len(SourceArticles) |-> SourcePmcid(SourceArticles[i])], NonEmptyText)

\* the sanitized pmcids of the articles of the enrichment reply
EnrichPmcids ==
  {cleanPmcId(TextOr(replies[2].data.article[j].pmc, <<>>)) :
     j \in 1..Len(replies[2].data.article)}

\* C7: a successful POST /api/papers returns one record per article element
\* of the primary reply, in document order, also after the enrichment pass;
\* total is the length of papers; a reply without article elements gives the
\* success {papers: [], total: 0}.
C7_OneRecordPerArticle ==
  /\ (PrimaryParsed /\ pc = "papers_enrich") =>
       /\ Len(local.papers) = Len(SourceArticles)
       /\ \A i \in 1..Len(SourceArticles) : local.papers[i].uid = SourceUid(SourceArticles[i])
  /\ PapersSuccess =>
       /\ PrimaryParsed
       /\ resp.status = 200
       /\ Len(resp.papers) = Len(SourceArticles)
       /\ \A i \in 1..Len(SourceArticles) :
            /\ resp.papers[i].uid = SourceUid(SourceArticles[i])
            /\ resp.papers[i].pmcid = SourcePmcid(SourceArticles[i])
       /\ resp.total = Len(resp.papers)
  /\ (PrimaryParsed /\ SourceArticles = <<>>) =>
       (pc = "done" /\ resp = [status |-> 200, kind |-> "papers", papers |-> <<>>, total |-> 0])

\* C7 witness: two PubMed records answered after an enrichment reply of two
\* articles, the first of which matches the second record
C7_Witness ==
  /\ PapersSuccess /\ Len(calls) = 2 /\ Len(resp.papers) = 2
  /\ Len(replies[2].data.article) = 2
  /\ resp.papers[1].pmcid = <<"7">> /\ resp.papers[2].pmcid = <<"8">>
  /\ replies[2].data.article[1].pmc = <<"8">>
  /\ resp.papers[2] # FirstPass(2)

\* C8: the enrichment fetch is made exactly when db = pubmed and some record
\* of the successful primary fetch has a non-empty sanitized pmcid; it comes
\* after the primary reply and carries exactly those pmcids; a batch makes at
\* most two calls, and at most one for db = pmc.
C8_EnrichmentCondition ==
  req.endpoint = "papers" =>
    /\ Len(calls) <= 2
    /\ local.db # <<"pubmed">> => Len(calls) <= 1
    /\ Len(calls) >= 1 => calls[1].api = "efetch" /\ calls[1].db = local.db
    /\ Len(calls) = 2 =>
         /\ PrimaryParsed
         /\ local.db = <<"pubmed">>
         /\ SourcePmcids # <<>>
         /\ calls[2] = [api |-> "efetch", db |-> <<"pmc">>, id |-> Join(SourcePmcids, <<",">>),
                         timeout |-> 30000]
    /\ (PrimaryParsed /\ local.db = <<"pubmed">> /\ SourcePmcids # <<>>) => Len(calls) = 2

\* C8 witness: a PubMed reply whose first record has no pmcid and whose second
\* has pmcid 8 was followed by the PMC fetch of id 8
C8_Witness ==
  /\ req.endpoint = "papers" /\ PrimaryParsed /\ Len(calls) = 2
  /\ Len(SourceArticles) = 2
  /\ SourcePmcid(SourceArticles[1]) = <<>>
  /\ SourcePmcid(SourceArticles[2]) = <<"8">>
  /\ calls[2] = [api |-> "efetch", db |-> <<"pmc">>, id |-> <<"8">>, timeout |-> 30000]

\* C9: a PubMed record whose sanitized pmcid is empty has, in the final
\* response, the fields the first pass gave it, whatever the enrichment reply
\* contains.
C9_NoPmcidNeverEnriched ==
  (PapersSuccess /\ Len(calls) = 2) =>
    \A i \in 1..Len(resp.papers) :
      FirstPass(i).pmcid = <<>> => resp.papers[i] = FirstPass(i)

\* C10: enrichment leaves uid and pmcid of every record unchanged, and leaves
\* the whole record unchanged when no article of the enrichment reply has that
\* record's pmcid as its sanitized pmcid.
C10_EnrichmentFrame ==
  (PapersSuccess /\ Len(calls) = 2) =>
    /\ Len(resp.papers) = Len(SourceArticles)
    /\ \A i \in 1..Len(SourceArticles) :
         /\ resp.papers[i].uid = FirstPass(i).uid
         /\ resp.papers[i].pmcid = FirstPass(i).pmcid
         /\ FirstPass(i).pmcid \notin EnrichPmcids => resp.papers[i] = FirstPass(i)

\* C10 witness: of two records, the enrichment reply matched and changed one
\* and had no article for the other
C10_Witness ==
  /\ PapersSuccess /\ Len(calls) = 2 /\ Len(resp.papers) = 2
  /\ \E i, j \in 1..2 :
       /\ FirstPass(i).pmcid \notin EnrichPmcids
       /\ resp.papers[i] = FirstPass(i)
       /\ FirstPass(j).pmcid \in EnrichPmcids
       /\ resp.papers[j] # FirstPass(j)
       /\ resp.papers[j].uid = FirstPass(j).uid

\* the articles of the enrichment reply whose sanitized pmcid is that of the
\* i-th record
MatchingArticles(i) ==
  {j \in 1..Len(replies[2].data.article) :
     cleanPmcId(TextOr(replies[2].data.article[j].pmc, <<>>)) = FirstPass(i).pmcid}

\* the enrichable fields of a record
Enrichable(p) == <<p.title, p.articletitle, p.authors, p.source, p.pubdate, p.pdfUrl>>

\* C11: in an enriched batch where every record has a non-empty pmcid, the
\* enrichable fields of every record that has one corresponding PMC article in
\* the enrichment reply are those the PMC extraction rules give for that
\* article (also when the article lacks a title, abstract, journal or date, and
\* when two records carry the same pmcid).
C11_EnrichedFieldsArePmcExtraction ==
  (PapersSuccess /\ Len(calls) = 2 /\ \A i \in 1..Len(resp.papers) : FirstPass(i).pmcid # <<>>) =>
    \A i \in 1..Len(resp.papers) :
      \A j \in MatchingArticles(i) :
        Cardinality(MatchingArticles(i)) = 1 =>
          Enrichable(resp.papers[i]) = Enrichable(NormalizePmc(replies[2].data.article[j]))

(* ------------------------- failed outbound calls ------------------------ *)

\* an outbound call failed: axios rejected (network failure, timeout, or a
\* status outside 2xx)
Failed(k) == replies[k].outcome = "rejected"

\* C12: no call is issued twice; a failed outbound call is the last call of
\* its request, and the request is answered at once with an error status and
\* a JSON body that has an error member and no papers; this includes the
\* enrichment fetch of a batch.
C12_FailedCallFailsRequest ==
  /\ Len(replies) <= Len(calls) /\ Len(calls) <= Len(replies) + 1
  /\ \A i, j \in 1..Len(calls) : i # j => calls[i] # calls[j]
  /\ \A k \in 1..Len(replies) :
       Failed(k) =>
         /\ k = Len(replies) /\ Len(calls) = k
         /\ pc = "done" /\ sent = 1
         /\ resp.kind = "error" /\ resp.status >= 400
         /\ "error" \in DOMAIN resp /\ "papers" \notin DOMAIN resp

\* C12 witness: the enrichment fetch of a batch failed after a PubMed pass
\* that had built two records, and the answer is an error
C12_Witness ==
  /\ req.endpoint = "papers" /\ Len(replies) = 2 /\ Failed(2)
  /\ Len(local.papers) = 2
  /\ pc = "done" /\ resp.kind = "error"

(* ----------------------------- pubdate claim ---------------------------- *)

\* the positions of the separators of a date text
Dashes(v) == {i \in 1..Len(v) : v[i] = "-"}

\* empty, a bare year, year-MM or year-MM-DD with MM and DD of two characters
DateShaped(v) ==
  LET dashes == Dashes(v)
  IN \/ dashes = {}
     \/ \E i \in dashes : dashes = {i} /\ i > 1 /\ Len(v) - i = 2
     \/ \E i, j \in dashes :
          /\ dashes = {i, j} /\ i > 1 /\ j - i = 3 /\ Len(v) - j = 2

\* C13: on every normalisation path the pubdate is empty, a bare year,
\* year-MM or year-MM-DD, where MM and DD have exactly two characters for
\* every month and day text of the source; a one-character month or day is
\* padded with 0 (2021, 3, 7 gives 2021-03-07).
C13_PubdateShape ==
  pc = "date_done" =>
    /\ DateShaped(resp.value)
    /\ (req.hasPubDate /\ req.year = <<"2", "0", "2", "1">> /\ req.month = <<"3">>
        /\ req.day = <<"7">>) =>
         resp.value = <<"2", "0", "2", "1", "-", "0", "3", "-", "0", "7">>

(* ----------------------------- abstract claim --------------------------- *)

\* the article has no AbstractText element (PubMed) / no abstract paragraph (PMC)
NoPubmedAbstractMarkup(a) == Len(a.AbstractText) = 0

NoPmcAbstractMarkup(a) == Len(a.abstractP) = 0

NoSourceAbstractMarkup(i) ==
  IF local.db = <<"pubmed">> THEN NoPubmedAbstractMarkup(SourceArticles[i])
  ELSE NoPmcAbstractMarkup(SourceArticles[i])

\* the single lookup answered with the record of an article
PaperSuccess == req.endpoint = "paper" /\ pc = "done" /\ resp.kind = "paper"

\* C14: a batch or single-lookup record whose source article has no abstract
\* markup has articletitle "No abstract available."; after enrichment this
\* holds for a PubMed record without abstract markup whose matching PMC
\* articles have no abstract paragraph either.
C14_NoAbstractText ==
  /\ (PapersSuccess /\ Len(calls) = 1) =>
       \A i \in 1..Len(resp.papers) :
         NoSourceAbstractMarkup(i) => resp.papers[i].articletitle = NoAbstract
  /\ (PapersSuccess /\ Len(calls) = 2) =>
       \A i \in 1..Len(resp.papers) :
         (/\ NoSourceAbstractMarkup(i)
          /\ \A j \in MatchingArticles(i) : NoPmcAbstractMarkup(replies[2].data.article[j])) =>
           resp.papers[i].articletitle = NoAbstract
  /\ (PaperSuccess /\ Len(calls) = 1) =>
       (NoPubmedAbstractMarkup(replies[1].data.PubmedArticle[1]) => resp.articletitle = NoAbstract)
  /\ (PaperSuccess /\ Len(calls) = 2) =>
       (NoPmcAbstractMarkup(replies[2].data.article[1]) => resp.articletitle = NoAbstract)

\* C14 witness: an enriched PubMed record without abstract markup whose
\* matching PMC article has no abstract paragraph
C14_Witness ==
  /\ PapersSuccess /\ Len(calls) = 2
  /\ \E i \in 1..Len(resp.papers) :
       /\ NoSourceAbstractMarkup(i)
       /\ FirstPass(i).pmcid # <<>>
       /\ MatchingArticles(i) # {}
       /\ \A j \in MatchingArticles(i) : NoPmcAbstractMarkup(replies[2].data.article[j])
       /\ resp.papers[i].articletitle = NoAbstract

(* --------------------------- client input errors ------------------------ *)

\* answered with a 4xx status and an error body, without any outbound call
RejectedAsClientError ==
  /\ pc = "done" /\ resp.kind = "error"
  /\ resp.status >= 400 /\ resp.status <= 499
  /\ calls = <<>>

\* every id of the array is empty or blank once the prefix is removed
AllEmptyAfterSanitization(ids) == \A i \in 1..Len(ids) : Trim(cleanPmcId(ids[i])) = <<>>

BatchInputError ==
  /\ req.endpoint = "papers" /\ req.method = "POST" /\ req.hasBody
  /\ \/ req.idsKind # "array"
     \/ req.ids = <<>>
     \/ OrDefault(req.db, DefaultDb) \notin SUPPORTED_DATABASES
     \/ AllEmptyAfterSanitization(req.ids)

C16_UpstreamStatusSurfaced ==
  \A k \in 1..Len(replies) :
    Failed(k) =>
      /\ pc = "done"
      /\ resp.status = (IF replies[k].cause = "response" THEN replies[k].status ELSE 500)

(* ----------------------------- single lookup ---------------------------- *)

\* the k-th fetch of the lookup came back with a document that was parsed
Fetched(k) == Len(replies) >= k /\ replies[k].outcome = "resolved" /\ replies[k].data.wellFormed

\* C17: the single lookup (a GET request) calls PubMed first, with the
\* trimmed id; it calls
\* PMC, with the same id, only after a parsed PubMed document without
\* PubmedArticle element, and always then; it answers 404 exactly when both
\* documents were fetched and parsed and neither has an article element; it
\* makes at most two calls, so no enrichment fetch follows a PubMed article
\* that has a pmcid.
C17_SingleLookupOrder ==
  (req.endpoint = "paper" /\ req.method = "GET") =>
    /\ Len(calls) <= 2
    /\ Len(calls) >= 1 =>
         calls[1].api = "efetch" /\ calls[1].db = <<"pubmed">>
         /\ calls[1].id = encodeURIComponent(Trim(req.id))
    /\ Len(calls) = 2 =>
         /\ Fetched(1) /\ replies[1].data.PubmedArticle = <<>>
         /\ calls[2].api = "efetch" /\ calls[2].db = <<"pmc">> /\ calls[2].id = calls[1].id
    /\ (Fetched(1) /\ replies[1].data.PubmedArticle = <<>>) => Len(calls) = 2
    /\ (Fetched(1) /\ replies[1].data.PubmedArticle # <<>>) => (pc = "done" /\ Len(calls) = 1)
    /\ pc = "done" =>
         (resp.status = 404 <=>
            /\ Fetched(1) /\ replies[1].data.PubmedArticle = <<>>
            /\ Fetched(2) /\ replies[2].data.article = <<>>)

\* C17 witness: PubMed and PMC both answered without article element, PMC
\* with an ERROR element, and the lookup is answered 404 after two calls
C17_Witness ==
  /\ req.endpoint = "paper" /\ pc = "done" /\ Len(calls) = 2
  /\ Fetched(1) /\ Fetched(2)
  /\ resp.status = 404 /\ "details" \in DOMAIN resp
  /\ resp.details = <<"ID list is empty">>

\* the members of a record the single lookup and the batch both return
SharedFields(p) ==
  <<p.pmcid, p.uid, p.title, p.articletitle, p.sortfirstauthor, p.authors, p.source,
    p.pubdate, p.pdfUrl>>

SingleBodyMembers ==
  {"pmcid", "uid", "title", "articletitle", "sortfirstauthor", "authors", "source",
   "pubdate", "pdfUrl"}

\* C18: the body of a successful single lookup is the record itself: its nine
\* members have the values the batch first-pass normaliser gives for the same
\* PubmedArticle (or the same PMC article after the fallback), it has no
\* authorsArray and no papers/total envelope; every batch record has
\* authorsArray.
C18_SingleEqualsBatchFirstPass ==
  /\ PaperSuccess =>
       /\ DOMAIN resp = {"status", "kind"} \cup SingleBodyMembers
       /\ Len(calls) = 1 =>
            SharedFields(resp) = SharedFields(NormalizePubmed(replies[1].data.PubmedArticle[1]))
       /\ Len(calls) = 2 =>
            SharedFields(resp) = SharedFields(NormalizePmc(replies[2].data.article[1]))
  /\ PapersSuccess =>
       /\ DOMAIN resp = {"status", "kind", "papers", "total"}
       /\ \A i \in 1..Len(resp.papers) :
            DOMAIN resp.papers[i] = SingleBodyMembers \cup {"authorsArray"}

\* C18 witness: the lookup answered with the record of a PMC article reached
\* through the fallback, whose title was trimmed
C18_Witness ==
  /\ PaperSuccess /\ Len(calls) = 2
  /\ replies[2].data.article[1].title # Undefined
  /\ resp.title # replies[2].data.article[1].title
  /\ resp.title = Trim(replies[2].data.article[1].title)

(* ------------------------- methods and preflight ------------------------ *)

\* the method each route allows
AllowedMethod == IF req.endpoint = "papers" THEN "POST" ELSE "GET"

\* C19: under the serverless handlers and under the Express server, an
\* OPTIONS request to any route is answered 200 with the permissive
\* cross-origin headers and no body, and a request to the search or papers
\* route with a method that is neither the allowed one nor OPTIONS is answered
\* 405; neither makes an outbound call.
C19_PreflightAndMethodNotAllowed ==
  req.endpoint \in {"search", "papers", "paper"} =>
    /\ req.method = "OPTIONS" =>
         /\ pc = "done" /\ calls = <<>>
         /\ resp.status = 200 /\ resp.kind = "empty" /\ resp.allowOrigin = "*"
    /\ (req.endpoint \in {"search", "papers"} /\ req.method \notin {AllowedMethod, "OPTIONS"}) =>
         /\ pc = "done" /\ calls = <<>>
         /\ resp.status = 405

(* -------------------------------- timeouts ------------------------------ *)

\* C20: every outbound call of every endpoint (the two search calls, the
\* batch primary fetch, the enrichment fetch, the two fetches of the single
\* lookup) is issued with a timeout of 30 seconds.
C20_EveryCallHasTimeout ==
  \A k \in 1..Len(calls) :
    "timeout" \in DOMAIN calls[k] /\ calls[k].timeout = 30000

(* ------------------------- concurrent requests --------------------------- *)

OwnStart(i) == parseInt(OrDefault(req[i].retstart, DefaultRetstart)).val

OwnMax(i) == parseInt(OrDefault(req[i].retmax, DefaultRetmax)).val

OwnSession(i) == replies[i][1].data.esearchresult

BothResolved(i) ==
  /\ Len(replies[i]) = 2
  /\ \A k \in 1..2 : replies[i][k].outcome = "resolved"

\* C21: with requests interleaved in any order, the outbound calls and the
\* response of every request are a function of that request's own parameters
\* and of the replies to its own calls only: a request that has not arrived
\* owns nothing, two requests with equal parameters and equal replies have
\* equal calls and responses, the page call carries the session token and
\* query key of the request's own history reply, the search body is built from
\* the request's own count and id page, and the batch body is the request's
\* own primary records overlaid with its own enrichment document
C21_OwnDataOnly ==
  /\ \A i \in Slots :
       pc[i] = "idle" => /\ local[i] = NoLocal
                         /\ calls[i] = <<>> /\ replies[i] = <<>>
                         /\ resp[i] = NoResp /\ sent[i] = 0
  /\ \A i, j \in Slots :
       req[i] = req[j] /\ replies[i] = replies[j]
         => calls[i] = calls[j] /\ resp[i] = resp[j] /\ pc[i] = pc[j]
  /\ \A i \in Slots :
       req[i].endpoint = "search" /\ Len(calls[i]) = 2
         => calls[i][2] = PageCall(OrDefault(req[i].db, DefaultDb), OwnSession(i).querykey,
                                   OwnSession(i).webenv, OwnStart(i), OwnMax(i))
  /\ \A i \in Slots :
       req[i].endpoint = "search" /\ BothResolved(i)
         => resp[i] = SearchBody(replies[i][2].data.esearchresult.idlist,
                                 parseInt(OwnSession(i).count).val, OwnStart(i), OwnMax(i))
  /\ \A i \in Slots :
       req[i].endpoint = "papers" /\ BothResolved(i)
         => resp[i] = PapersBody(Enrich(NormalizeAll(<<"pubmed">>, replies[i][1].data),
                                        replies[i][2].data.article))

\* two searches and their history sessions in flight together, finished with
\* different own counts; or two batches finished with different own records
C21_Witness ==
  \/ /\ \A i \in Slots : req[i].endpoint = "search" /\ BothResolved(i) /\ pc[i] = "done"
     /\ OwnSession(1).webenv # OwnSession(2).webenv
     /\ resp[1] # resp[2]
  \/ /\ \A i \in Slots : req[i].endpoint = "papers" /\ BothResolved(i) /\ pc[i] = "done"
     /\ resp[1].papers # resp[2].papers

(* ------------------------- identifiers in URLs --------------------------- *)

\* some entry of the comma-joined id list begins with PMC in some casing
EntryHasPmcPrefix(list) ==
  \E k \in 1..Len(list) :
    /\ k = 1 \/ list[k - 1] = ","
    /\ HasPmcPrefix(SubSeq(list, k, Len(list)))

IsTemplateUrl(url) ==
  Len(url) >= 4 /\ SubSeq(url, 1, 3) = SubSeq(PmcPdfUrl(<<>>), 1, 3)

TemplateId(url) == SubSeq(url, 4, Len(url) - 1)

ReturnedRecords ==
  IF resp.kind = "papers" THEN {resp.papers[k] : k \in 1..Len(resp.papers)}
  ELSE IF resp.kind = "paper" THEN {resp}
  ELSE {}

\* C22: no id of the batch primary fetch, of the enrichment fetch or of the
\* PMC fallback fetch of the single lookup, and no id inside a template-built
\* pdfUrl of a returned record, begins with PMC in any casing
C22_UrlIdsPrefixStripped ==
  /\ req.endpoint = "papers" =>
       \A k \in 1..Len(calls) : ~EntryHasPmcPrefix(calls[k].id)
  /\ req.endpoint = "paper" =>
       \A k \in 1..Len(calls) : calls[k].db = <<"pmc">> => ~HasPmcPrefix(calls[k].id)
  /\ \A p \in ReturnedRecords :
       IsTemplateUrl(p.pdfUrl) => ~HasPmcPrefix(TemplateId(p.pdfUrl))

(* ------------------------ batch of prefixed ids -------------------------- *)

\* the ids of the request with one prefix removed, those that are empty or
\* blank afterwards left out, in request order
RECURSIVE SanitizedInOrder(_)
SanitizedInOrder(ids) ==
  IF ids = <<>> THEN <<>>
  ELSE LET id == cleanPmcId(Head(ids))
       IN (IF Trim(id) = <<>> THEN <<>> ELSE <<id>>) \o SanitizedInOrder(Tail(ids))

NoExplicitPdfLink(a) ==
  /\ a.selfUri = <<>>
  /\ \A k \in 1..Len(a.extLink) : Lower(a.extLink[k][Len(a.extLink[k])]) # ".pdf"

\* C23: the primary fetch of a batch carries the comma-joined sanitized ids
\* of the request in request order without the entries that are empty or
\* blank after sanitization; for db = pmc an article with an article-id of
\* type pmc and no explicit PDF link gives a record whose pmcid is that id
\* sanitized and whose pdfUrl is the template around it (article-id 9999:
\* pmcid 9999, pdfUrl ending in PMC9999/pdf/), one record per article
C23_PrefixedBatch ==
  /\ (req.endpoint = "papers" /\ Len(calls) >= 1) =>
       /\ calls[1].id = Join(SanitizedInOrder(req.ids), <<",">>)
       /\ calls[1].db = OrDefault(req.db, DefaultDb)
  /\ (PapersSuccess /\ local.db = <<"pmc">>) =>
       /\ Len(resp.papers) = Len(replies[1].data.article)
       /\ \A k \in 1..Len(resp.papers) :
            LET a == replies[1].data.article[k]
            IN (a.pmc # Undefined /\ NoExplicitPdfLink(a)) =>
                 /\ resp.papers[k].pmcid = cleanPmcId(a.pmc)
                 /\ resp.papers[k].pdfUrl =
                      <<"http", "s://www.ncbi.nlm.nih.gov/pmc/articles/", "PMC">>
                      \o resp.papers[k].pmcid \o <<"/pdf/">>

\* ids ['Pmc ', '8'] with db = pmc sent as 8, answered by one article with
\* article-id 9999 and no PDF link
C23_Witness ==
  /\ PapersSuccess /\ local.db = <<"pmc">>
  /\ req.ids = <<<<"P", "m", "c", " ">>, <<"8">>>>
  /\ calls[1].id = <<"8">>
  /\ Len(replies[1].data.article) = 1
  /\ replies[1].data.article[1].pmc = <<"9", "9", "9", "9">>
  /\ Len(resp.papers) = 1
  /\ resp.papers[1].pmcid = <<"9", "9", "9", "9">>
  /\ SubSeq(resp.papers[1].pdfUrl, 3, 8) = <<"PMC", "9", "9", "9", "9", "/pdf/">>
  /\ Len(resp.papers[1].pdfUrl) = 8

(* --------------------------- pubdate fallback ---------------------------- *)

\* the element is missing or its text is blank
Unavailable(t) == t = Undefined \/ Trim(t) = <<>>

NoDateParts(d) ==
  ~d.hasPubDate \/ (Unavailable(d.year) /\ Unavailable(d.month) /\ Unavailable(d.day))

\* C24: a PubMed article with none of Year, Month, Day under PubDate, or with
\* no PubDate element, has the text of PubStatus > Year as pubdate when that
\* element exists and the empty text otherwise; a PMC article with no year
\* has the empty pubdate
C24_PubStatusFallback ==
  pc = "date_done" =>
    /\ (resp.path \in {"pubmed", "single_pubmed"} /\ NoDateParts(req)) =>
         resp.value = (IF req.statusYear # Undefined THEN Trim(req.statusYear) ELSE <<>>)
    /\ (resp.path \in {"pmc", "single_pmc"} /\ (~req.hasPubDate \/ Unavailable(req.year))) =>
         resp.value = <<>>

(* ----------------------------- first author ------------------------------ *)

FirstOfList(first, list) ==
  /\ list # <<>> => first = list[1]
  /\ list = <<>> => first = Unknown
  /\ \A k \in 1..Len(list) : list[k] # <<>>

\* the authors list the single lookup joined its authors member from
SingleAuthorsList ==
  IF Len(calls) = 1 THEN PubmedAuthors(replies[1].data.PubmedArticle[1])
  ELSE PmcAuthors(replies[2].data.article[1])

\* C25: in every returned record sortfirstauthor is the first entry of the
\* record's authors list when the list is non-empty and "Unknown" when it is
\* empty, also after the enrichment pass; authors is that list joined with
\* ", "; no entry of the list is empty, and a list extracted from a
\* PubmedArticle has no entry "Unknown"
C25_FirstAuthorOfList ==
  /\ PapersSuccess =>
       \A k \in 1..Len(resp.papers) :
         /\ FirstOfList(resp.papers[k].sortfirstauthor, resp.papers[k].authorsArray)
         /\ resp.papers[k].authors = Join(resp.papers[k].authorsArray, <<",", " ">>)
         /\ local.db = <<"pubmed">> =>
              \A n \in 1..Len(FirstPass(k).authorsArray) : FirstPass(k).authorsArray[n] # Unknown
  /\ PaperSuccess =>
       /\ FirstOfList(resp.sortfirstauthor, SingleAuthorsList)
       /\ resp.authors = Join(SingleAuthorsList, <<",", " ">>)
       /\ Len(calls) = 1 => \A n \in 1..Len(SingleAuthorsList) : SingleAuthorsList[n] # Unknown

(* ------------------------- PDF link precedence --------------------------- *)

\* the self-uri element names a PDF and has an href
QualifiesAsPdf(u) ==
  /\ Truthy(u.contentType)
  /\ \E k \in 1..Len(u.contentType) : Lower(u.contentType[k]) = "pdf"
  /\ Truthy(u.href)

EndsInPdf(href) == Truthy(href) /\ Lower(href[Len(href)]) = ".pdf"

OwnTemplate(d) ==
  <<"http", "s://www.ncbi.nlm.nih.gov/pmc/articles/", "PMC">>
  \o cleanPmcId(TextOr(d.pmc, <<>>)) \o <<"/pdf/">>

\* C26: for a PMC article, (1) when some self-uri element, the first or a
\* later one, has a content-type containing pdf in any casing and an href,
\* pdfUrl is the href of such an element when it is absolute and the
\* template URL otherwise; else (2) pdfUrl is the href of the first ext-link
\* whose href ends in .pdf in any casing; else (3) it is the template URL
C26_PdfPrecedence ==
  pc = "pdf_done" =>
    LET qualifying == {k \in 1..Len(req.selfUri) : QualifiesAsPdf(req.selfUri[k])}
        pdfLinks == {k \in 1..Len(req.extLink) : EndsInPdf(req.extLink[k])}
    IN IF qualifying # {}
       THEN \E k \in qualifying :
              resp.value = (IF Head(req.selfUri[k].href) = "http" THEN req.selfUri[k].href
                            ELSE OwnTemplate(req))
       ELSE IF pdfLinks # {}
       THEN \E k \in pdfLinks : /\ \A j \in pdfLinks : k <= j
                                /\ resp.value = req.extLink[k]
       ELSE resp.value = OwnTemplate(req)

(* --------------------------- template pdfUrl ----------------------------- *)

\* C27: in every returned record a pdfUrl built from the PMC template embeds
\* the record's own pmcid, which is not empty, also after the enrichment
\* pass; a record with an empty pmcid has no template URL (its pdfUrl is
\* empty unless an explicit PDF link was found)
C27_TemplateEmbedsOwnPmcid ==
  \A p \in ReturnedRecords :
    IsTemplateUrl(p.pdfUrl) =>
      /\ p.pmcid # <<>>
      /\ TemplateId(p.pdfUrl) = p.pmcid

(* ------------------------- one response per request ---------------------- *)

\* C28: a request never has two responses, a finished handler has sent
\* exactly one and an unfinished one none, and, every issued call returning
\* or failing, every request that arrived is eventually answered
C28_ExactlyOneResponse ==
  /\ [](/\ sent <= 1
        /\ pc = "done" <=> sent = 1
        /\ sent = 1 <=> resp # NoResp)
  /\ (pc # "idle") ~> (pc = "done" /\ sent = 1)

\* a lookup answered with the PMC record after two calls, once
C28_Witness ==
  /\ PaperSuccess /\ Len(calls) = 2 /\ Len(replies) = 2 /\ sent = 1

(* ----------------------- failures before any call ------------------------ *)

\* C29: a response with a status of 500 or more is sent only after an
\* outbound call of the request was issued: a request that fails before its
\* first call, for every body and query, is answered with a 4xx status
C29_ServerErrorOnlyAfterCall ==
  (pc = "done" /\ resp.status >= 500) => Len(calls) >= 1

(* ----------------------- the two implementations ------------------------- *)

\* both sides have received the request, with the same parameters
SameRequest ==
  /\ \A i \in Sides : pc[i] # "idle"
  /\ [req[2] EXCEPT !.server = "serverless"] = req[1]

\* C30: given the same request on the allowed method and the same upstream
\* replies, the serverless handler and the Express route have issued the
\* same outbound calls, are at the same point, and have sent the same status
\* and body
C30_ImplementationsEquivalent ==
  (SameRequest /\ replies[1] = replies[2]) =>
    /\ calls[1] = calls[2]
    /\ pc[1] = pc[2]
    /\ resp[1] = resp[2]

====
